---- MODULE Spec2Model ----
(***************************************************************************)
(* pdfkit-layout: the box-model geometry resolver (Box/Image/Text in       *)
(* src/src/index.ts, FlexBox in flexbox.ts = src/unnamed/part_002:512-835) *)
(* and the flex distributor (FlexBox.performLayout).                       *)
(*                                                                         *)
(* JavaScript numbers are modelled as exact rationals [n, d] in lowest     *)
(* terms (d > 0), extended with the non-finite values the code can         *)
(* produce: NaN (d = 0, n = 0), +Infinity / -Infinity (d = 0, n = 1 / -1). *)
(* A missing object property (JavaScript undefined) is the value Undefined *)
(* (d = -1); arithmetic converts it with ToNumber, which yields NaN.       *)
(***************************************************************************)
EXTENDS Integers, Sequences, FiniteSets, TLC

VARIABLES attr, parentBox, children, childLayouts, call, retry, calc, pass

vars == <<attr, parentBox, children, childLayouts, call, retry, calc, pass>>

(***************************************************************************)
(* Bounds of the model.                                                    *)
(***************************************************************************)
NumNodes == 3
MaxAdds == 2
MaxChildCount == 4

Node == 1..NumNodes
NoNode == 0

(***************************************************************************)
(* Numbers.                                                                *)
(***************************************************************************)
Abs(i) == IF i < 0 THEN -i ELSE i

Sign(i) == IF i < 0 THEN -1 ELSE IF i > 0 THEN 1 ELSE 0

RECURSIVE GCD(_, _)
GCD(a, b) == IF b = 0 THEN a ELSE GCD(b, a % b)

NaN == [n |-> 0, d |-> 0]
Undefined == [n |-> 0, d |-> -1]
Infinity(s) == [n |-> s, d |-> 0]

\* the rational p/q, q # 0, in lowest terms with a positive denominator
Rat(p, q) ==
  LET g == GCD(Abs(p), Abs(q))
      s == Sign(q)
  IN [n |-> (s * p) \div g, d |-> (s * q) \div g]

Int2Num(i) == [n |-> i, d |-> 1]

Zero == Int2Num(0)
Two == Int2Num(2)

IsNaN(a) == a.d = 0 /\ a.n = 0
IsFinite(a) == a.d > 0

\* JavaScript ToNumber on a number or undefined
ToNumber(v) == IF v.d < 0 THEN NaN ELSE v

Plus(u, v) ==
  LET a == ToNumber(u)
      b == ToNumber(v)
  IN IF IsNaN(a) \/ IsNaN(b) THEN NaN
     ELSE IF a.d = 0 /\ b.d = 0 THEN (IF a.n = b.n THEN a ELSE NaN)
     ELSE IF a.d = 0 THEN a
     ELSE IF b.d = 0 THEN b
     ELSE Rat(a.n * b.d + b.n * a.d, a.d * b.d)

Neg(u) == LET a == ToNumber(u) IN [n |-> -a.n, d |-> a.d]

Minus(u, v) == Plus(u, Neg(v))

Times(u, v) ==
  LET a == ToNumber(u)
      b == ToNumber(v)
  IN IF IsNaN(a) \/ IsNaN(b) THEN NaN
     ELSE IF a.d = 0 \/ b.d = 0
          THEN (IF a.n = 0 \/ b.n = 0 THEN NaN ELSE Infinity(Sign(a.n) * Sign(b.n)))
     ELSE Rat(a.n * b.n, a.d * b.d)

Over(u, v) ==
  LET a == ToNumber(u)
      b == ToNumber(v)
  IN IF IsNaN(a) \/ IsNaN(b) THEN NaN
     ELSE IF a.d = 0 THEN (IF b.d = 0 THEN NaN
                           ELSE Infinity(a.n * (IF b.n < 0 THEN -1 ELSE 1)))
     ELSE IF b.d = 0 THEN Zero
     ELSE IF b.n = 0 THEN (IF a.n = 0 THEN NaN ELSE Infinity(Sign(a.n)))
     ELSE Rat(a.n * b.d, a.d * b.n)

\* a > b on numbers (false when either is NaN)
Greater(u, v) ==
  LET a == ToNumber(u)
      b == ToNumber(v)
  IN IF IsNaN(a) \/ IsNaN(b) THEN FALSE
     ELSE IF a.d = 0 /\ b.d = 0 THEN a.n > b.n
     ELSE IF a.d = 0 THEN a.n > 0
     ELSE IF b.d = 0 THEN b.n < 0
     ELSE a.n * b.d > b.n * a.d

\* F applied to the value of v (v is evaluated once)
Bind(v, F(_)) == CHOOSE r \in {F(x) : x \in {v}} : TRUE

(***************************************************************************)
(* Construction.  A size property is a number or a percentage string; the  *)
(* string `${p}%` is modelled as [pct |-> p].  An omitted property is      *)
(* Undefined (measure: "undefined").                                       *)
(***************************************************************************)
IsNumberProp(v) == "d" \in DOMAIN v

Percent(p) == [pct |-> p]

\* x ?? dflt
OrDefault(v, dflt) == IF v.d < 0 THEN dflt ELSE v

\* A string given character by character, over the characters of Chars.
Str(chars) == [str |-> chars]

Chars == {"5", "0", ".", "%", "p"}

IsDigit(ch) == ch \in {"0", "5"}

DigitValue(ch) == IF ch = "5" THEN 5 ELSE 0

\* String.prototype.includes on a one-character search string
includes(s, ch) == \E i \in 1..Len(s) : s[i] = ch

RECURSIVE DigitRun(_, _)
\* the number of consecutive digits of s from position i on
DigitRun(s, i) ==
  IF i <= Len(s) /\ IsDigit(s[i]) THEN 1 + DigitRun(s, i + 1) ELSE 0

RECURSIVE DigitsValue(_, _, _)
\* the decimal value of the k digits of s that start at position i
DigitsValue(s, i, k) ==
  IF k = 0 THEN 0
  ELSE DigitsValue(s, i, k - 1) * 10 + DigitValue(s[i + k - 1])

RECURSIVE Pow10(_)
Pow10(k) == IF k = 0 THEN 1 ELSE 10 * Pow10(k - 1)

\* parseFloat on a string over Chars: the longest prefix that is a decimal
\* literal (digits, digits "." digits_opt, "." digits), NaN when there is none
parseFloat(s) ==
  LET whole == DigitRun(s, 1)
      dot == whole + 1 <= Len(s) /\ s[whole + 1] = "."
      frac == IF dot THEN DigitRun(s, whole + 2) ELSE 0
  IN IF whole = 0 /\ frac = 0 THEN NaN
     ELSE Rat(DigitsValue(s, 1, whole) * Pow10(frac)
                + DigitsValue(s, whole + 2, frac),
              Pow10(frac))

\* typeof v === "string" ? parseFloat(v) / 100 : v
SizeOf(v) ==
  IF IsNumberProp(v) THEN v
  ELSE IF "pct" \in DOMAIN v THEN Over(Int2Num(v.pct), Int2Num(100))
  ELSE Over(parseFloat(v.str), Int2Num(100))

NewBox(type, props) ==
  [type |-> type,
   x |-> OrDefault(props.x, Zero),
   y |-> OrDefault(props.y, Zero),
   width |-> SizeOf(props.width),
   height |-> SizeOf(props.height),
   measure |-> IF props.measure = "undefined" THEN "proportional" ELSE props.measure,
   padding |-> OrDefault(props.padding, Zero),
   margin |-> OrDefault(props.margin, Zero),
   borderWidth |-> OrDefault(props.borderWidth, Zero),
   verticalAlign |-> "none",
   direction |-> "none",
   justifyContent |-> "none",
   alignItems |-> "none",
   gap |-> Undefined]

\* Text: a Box whose verticalAlign is "top", "middle" or "bottom"
NewText(props) ==
  [NewBox("text", props) EXCEPT
     !.verticalAlign = IF props.verticalAlign = "center" THEN "middle"
                       ELSE IF props.verticalAlign = "undefined" THEN "middle"
                       ELSE props.verticalAlign]

NewFlexBox(props) ==
  [type |-> "flexbox",
   x |-> props.x,
   y |-> props.y,
   width |-> props.width,
   height |-> props.height,
   measure |-> IF props.measure = "undefined" THEN "proportional" ELSE props.measure,
   padding |-> OrDefault(props.padding, Zero),
   margin |-> OrDefault(props.margin, Zero),
   borderWidth |-> OrDefault(props.borderWidth, Int2Num(1)),
   verticalAlign |-> "none",
   direction |-> IF props.direction = "undefined" THEN "row" ELSE props.direction,
   justifyContent |-> IF props.justifyContent = "undefined" THEN "flex-start"
                      ELSE props.justifyContent,
   alignItems |-> IF props.alignItems = "undefined" THEN "flex-start"
                  ELSE props.alignItems,
   gap |-> OrDefault(props.gap, Zero)]

ErrWidthUnit == "Only percentage unit specifier allowed for width"
ErrHeightUnit == "Only percentage unit specifier allowed for height"

ConfigurationErrors == {ErrWidthUnit, ErrHeightUnit}

\* a constructor call: the new node, or the error thrown
Built(a) == [ok |-> TRUE, err |-> "", node |-> a]

\* the value of a variable whose constructor call has not returned
Unbuilt ==
  [type |-> "none", x |-> Undefined, y |-> Undefined, width |-> Undefined,
   height |-> Undefined, measure |-> "none", padding |-> Undefined,
   margin |-> Undefined, borderWidth |-> Undefined, verticalAlign |-> "none",
   direction |-> "none", justifyContent |-> "none", alignItems |-> "none",
   gap |-> Undefined]

Failed(msg) == [ok |-> FALSE, err |-> msg, node |-> Unbuilt]

IsStringProp(v) == "str" \in DOMAIN v \/ "pct" \in DOMAIN v

\* props.width.includes("%") on a string property
IncludesPercent(v) == "pct" \in DOMAIN v \/ includes(v.str, "%")

\* new Box(props), new Image(props), new Text(props)
Construct(type, props) ==
  IF IsStringProp(props.width) /\ ~IncludesPercent(props.width)
  THEN Failed(ErrWidthUnit)
  ELSE IF IsStringProp(props.height) /\ ~IncludesPercent(props.height)
  THEN Failed(ErrHeightUnit)
  ELSE Built(IF type = "text" THEN NewText(props) ELSE NewBox(type, props))

BoxProps(x, y, w, h, padding, margin, measure) ==
  [x |-> x, y |-> y, width |-> w, height |-> h, padding |-> padding,
   margin |-> margin, borderWidth |-> Undefined, measure |-> measure]

TextProps(x, y, w, h, padding, margin, borderWidth, measure, verticalAlign) ==
  [x |-> x, y |-> y, width |-> w, height |-> h, padding |-> padding,
   margin |-> margin, borderWidth |-> borderWidth, measure |-> measure,
   verticalAlign |-> verticalAlign]

FlexBoxProps(x, y, w, h, padding, margin, measure, direction, justify, align, gap) ==
  [x |-> x, y |-> y, width |-> w, height |-> h, padding |-> padding,
   margin |-> margin, borderWidth |-> Undefined, measure |-> measure,
   direction |-> direction, justifyContent |-> justify, alignItems |-> align,
   gap |-> gap]

\* the nodes the programs construct
NodePool ==
  << NewBox("box", BoxProps(Zero, Zero, Int2Num(800), Int2Num(600),
                            Undefined, Undefined, "absolute")),
     NewBox("image", BoxProps(Int2Num(10), Int2Num(20), Int2Num(100), Int2Num(200),
                              Int2Num(10), Int2Num(5), "absolute")),
     NewBox("box", BoxProps(Rat(1, 10), Rat(1, 10), Rat(4, 5), Rat(4, 5),
                            Undefined, Undefined, "proportional")),
     NewBox("box", BoxProps(Rat(1, 4), Rat(1, 4), Rat(1, 2), Rat(1, 2),
                            Undefined, Undefined, "undefined")),
     NewText(TextProps(Rat(1, 2), Undefined, Percent(50), Percent(50),
                       Int2Num(10), Int2Num(5), Undefined, "undefined",
                       "undefined")),
     NewFlexBox(FlexBoxProps(Zero, Zero, Int2Num(400), Int2Num(100),
                             Undefined, Undefined, "absolute",
                             "row", "undefined", "undefined", Int2Num(20))),
     NewFlexBox(FlexBoxProps(Zero, Rat(1, 2), Int2Num(1), Rat(1, 2),
                             Int2Num(10), Int2Num(5), "proportional",
                             "column", "space-between", "stretch", Undefined)),
     NewFlexBox(FlexBoxProps(Int2Num(20), Int2Num(30), Int2Num(300), Int2Num(200),
                             Int2Num(10), Int2Num(5), "absolute",
                             "undefined", "space-evenly", "center", Undefined)),
     NewFlexBox(FlexBoxProps(Zero, Zero, Int2Num(200), Int2Num(400),
                             Undefined, Undefined, "absolute",
                             "column", "space-around", "flex-end", Int2Num(10))),
     NewText(TextProps(Int2Num(30), Int2Num(40), Int2Num(200), Int2Num(100),
                       Int2Num(10), Undefined, Int2Num(2), "absolute", "top")),
     NewText(TextProps(Undefined, Undefined, Percent(100), Percent(10),
                       Undefined, Undefined, Int2Num(1), "undefined", "center")),
     NewText(TextProps(Int2Num(5), Int2Num(15), Int2Num(120), Int2Num(60),
                       Int2Num(5), Int2Num(5), Int2Num(1), "absolute", "bottom")),
     NewBox("box", BoxProps(Undefined, Undefined, Percent(100), Percent(100),
                            Int2Num(10), Undefined, "undefined")) >>

\* The programs: each constructs the nodes of one line, in this order (a
\* program that constructs more nodes than a line has constructs them again
\* from the start of the line).
Scenes ==
  << <<1, 3, 4, 5>>,
     <<6, 2, 5, 7>>,
     <<7, 1, 4, 6>>,
     <<6, 7, 3, 2>>,
     <<5, 7, 2, 1>>,
     <<3, 5, 6, 4>>,
     <<8, 5, 2, 3>>,
     <<9, 4, 2, 1>> >>

SceneNode(s, n) == NodePool[Scenes[s][((n - 1) % Len(Scenes[s])) + 1]]

(***************************************************************************)
(* Pages.  Page 0 is "no page passed"; a page has a size and four margins. *)
(***************************************************************************)
NoPage == 0

Pages ==
  << [width |-> Int2Num(600), height |-> Int2Num(800),
      margins |-> [left |-> Int2Num(50), top |-> Int2Num(40),
                   right |-> Int2Num(30), bottom |-> Int2Num(20)]] >>

PageArg == {NoPage} \cup (1..Len(Pages))

(***************************************************************************)
(* Results of a call: a rectangle or a thrown error.                       *)
(***************************************************************************)
Rect(x, y, w, h, padding) ==
  [x |-> x, y |-> y, width |-> w, height |-> h, padding |-> padding]

NoRect == Rect(Undefined, Undefined, Undefined, Undefined, Undefined)

Return(r) == [ok |-> TRUE, err |-> "", rect |-> r]
Throw(msg) == [ok |-> FALSE, err |-> msg, rect |-> NoRect]

ErrNoAnchorBox == "Cannot be proportional without parent or page added to the PDFDocument"
ErrNoAnchorFlex == "Cannot be proportional without parent"
ErrNotComputed == "Child layout not computed - call performLayout first"

MissingAnchorErrors == {ErrNoAnchorBox, ErrNoAnchorFlex}

isFlexBox(a) == a.type = "flexbox"

\* the four coordinates of a rectangle, without the padding metadata
Geometry(r) == [x |-> r.x, y |-> r.y, width |-> r.width, height |-> r.height]

(***************************************************************************)
(* getBounds.  cl is the childLayouts map of every FlexBox.                *)
(***************************************************************************)
\* AbsoluteBounds with the margin taken off the size once instead of twice
AbsoluteBounds_SingleMargin(a) ==
  Rect(Plus(a.x, a.margin),
       Plus(a.y, a.margin),
       Minus(a.width, a.margin),
       Minus(a.height, a.margin),
       Undefined)

AbsoluteBounds(a) ==
  Rect(Plus(a.x, a.margin),
       Plus(a.y, a.margin),
       Minus(a.width, Times(a.margin, Two)),
       Minus(a.height, Times(a.margin, Two)),
       Undefined)

\* SlotBounds that also offsets the slot by the node's own x and y fractions
SlotBounds_OwnFractions(a, layout) ==
  Rect(Plus(Plus(layout.x, Times(layout.width, a.x)), a.margin),
       Plus(Plus(layout.y, Times(layout.height, a.y)), a.margin),
       Minus(layout.width, Times(a.margin, Two)),
       Minus(layout.height, Times(a.margin, Two)),
       Undefined)

SlotBounds(a, layout) ==
  Rect(Plus(layout.x, a.margin),
       Plus(layout.y, a.margin),
       Minus(layout.width, Times(a.margin, Two)),
       Minus(layout.height, Times(a.margin, Two)),
       Undefined)

PageBase(pg) ==
  LET currentPage == Pages[pg]
  IN Rect(currentPage.margins.left,
          currentPage.margins.top,
          Minus(Minus(currentPage.width, currentPage.margins.left),
                currentPage.margins.right),
          Minus(Minus(currentPage.height, currentPage.margins.top),
                currentPage.margins.bottom),
          Zero)

\* BoxProportionalBounds that insets the rectangle by the node's own margin
BoxProportionalBounds_WithMargin(a, baseSize) ==
  Rect(Plus(Plus(Plus(baseSize.x, Times(baseSize.width, a.x)), baseSize.padding),
            a.margin),
       Plus(Plus(Plus(baseSize.y, Times(baseSize.height, a.y)), baseSize.padding),
            a.margin),
       Minus(Minus(Times(baseSize.width, a.width), Times(baseSize.padding, Two)),
             Times(a.margin, Two)),
       Minus(Minus(Times(baseSize.height, a.height), Times(baseSize.padding, Two)),
             Times(a.margin, Two)),
       a.padding)

BoxProportionalBounds(a, baseSize) ==
  Rect(Plus(Plus(baseSize.x, Times(baseSize.width, a.x)), baseSize.padding),
       Plus(Plus(baseSize.y, Times(baseSize.height, a.y)), baseSize.padding),
       Minus(Times(baseSize.width, a.width), Times(baseSize.padding, Two)),
       Minus(Times(baseSize.height, a.height), Times(baseSize.padding, Two)),
       a.padding)

FlexProportionalBounds(a, baseSize) ==
  Rect(Plus(baseSize.x, Times(baseSize.width, a.x)),
       Plus(baseSize.y, Times(baseSize.height, a.y)),
       Times(baseSize.width, a.width),
       Times(baseSize.height, a.height),
       Undefined)

\* computeChildLayout with the has(child) test inverted
computeChildLayout_Inverted(cl, f, c) ==
  IF c \in DOMAIN cl[f]
  THEN Throw(ErrNotComputed)
  ELSE Return(NoRect)

computeChildLayout(cl, f, c) ==
  IF c \notin DOMAIN cl[f]
  THEN Throw(ErrNotComputed)
  ELSE Return(cl[f][c])

RECURSIVE GetBounds(_, _, _)

BoxGetBounds(cl, n, pg) ==
  LET a == attr[n]
      p == parentBox[n]
  IN IF a.measure = "absolute" THEN Return(AbsoluteBounds(a))
     ELSE IF p = NoNode /\ pg = NoPage THEN Throw(ErrNoAnchorBox)
     ELSE IF p # NoNode /\ isFlexBox(attr[p])
          THEN Bind(computeChildLayout(cl, p, n), LAMBDA layout :
                 IF layout.ok THEN Return(SlotBounds(a, layout.rect)) ELSE layout)
     ELSE Bind(IF p # NoNode THEN GetBounds(cl, p, pg) ELSE Return(PageBase(pg)),
               LAMBDA baseSize :
                 IF baseSize.ok
                 THEN Return(BoxProportionalBounds(a, baseSize.rect))
                 ELSE baseSize)

\* FlexGetBounds that resolves a parentless proportional FlexBox as if absolute
FlexGetBounds_RootAsAbsolute(cl, n, pg) ==
  LET a == attr[n]
      p == parentBox[n]
  IN IF a.measure = "absolute" \/ p = NoNode THEN Return(AbsoluteBounds(a))
     ELSE IF isFlexBox(attr[p])
          THEN LET layout == computeChildLayout(cl, p, n)
               IN IF layout.ok THEN Return(SlotBounds(a, layout.rect)) ELSE layout
     ELSE LET baseSize == GetBounds(cl, p, pg)
          IN IF baseSize.ok
             THEN Return(FlexProportionalBounds(a, baseSize.rect))
             ELSE baseSize

FlexGetBounds(cl, n, pg) ==
  LET a == attr[n]
      p == parentBox[n]
  IN IF a.measure = "absolute" THEN Return(AbsoluteBounds(a))
     ELSE IF p = NoNode THEN Throw(ErrNoAnchorFlex)
     ELSE IF isFlexBox(attr[p])
          THEN Bind(computeChildLayout(cl, p, n), LAMBDA layout :
                 IF layout.ok THEN Return(SlotBounds(a, layout.rect)) ELSE layout)
     ELSE Bind(GetBounds(cl, p, pg), LAMBDA baseSize :
            IF baseSize.ok
            THEN Return(FlexProportionalBounds(a, baseSize.rect))
            ELSE baseSize)

GetBounds(cl, n, pg) ==
  IF isFlexBox(attr[n]) THEN FlexGetBounds(cl, n, pg)
  ELSE BoxGetBounds(cl, n, pg)

getBounds(n, pg) == GetBounds(childLayouts, n, pg)

(***************************************************************************)
(* FlexBox.performLayout and its helpers.                                  *)
(***************************************************************************)
JustifyValues ==
  {"flex-start", "flex-end", "center", "space-between", "space-around",
   "space-evenly"}

AlignValues == {"flex-start", "flex-end", "center", "stretch"}

\* calculateJustifyStart with space-around starting a full share in
calculateJustifyStart_AroundFullShare(justifyContent, childCount, remainingSpace) ==
  CASE justifyContent = "flex-start" -> Zero
    [] justifyContent = "flex-end" -> remainingSpace
    [] justifyContent = "center" -> Over(remainingSpace, Two)
    [] justifyContent = "space-between" -> Zero
    [] justifyContent = "space-around" ->
         Over(remainingSpace, Int2Num(childCount))
    [] justifyContent = "space-evenly" ->
         Over(remainingSpace, Int2Num(childCount + 1))
    [] OTHER -> Undefined

calculateJustifyStart(justifyContent, childCount, remainingSpace) ==
  CASE justifyContent = "flex-start" -> Zero
    [] justifyContent = "flex-end" -> remainingSpace
    [] justifyContent = "center" -> Over(remainingSpace, Two)
    [] justifyContent = "space-between" -> Zero
    [] justifyContent = "space-around" ->
         Over(remainingSpace, Int2Num(childCount * 2))
    [] justifyContent = "space-evenly" ->
         Over(remainingSpace, Int2Num(childCount + 1))
    [] OTHER -> Undefined

\* calculateSpaceBetween without the childCount > 1 test
calculateSpaceBetween_NoGuard(justifyContent, remainingSpace, childCount) ==
  CASE justifyContent = "space-between" ->
         Over(remainingSpace, Int2Num(childCount - 1))
    [] justifyContent = "space-around" -> Over(remainingSpace, Int2Num(childCount))
    [] justifyContent = "space-evenly" ->
         Over(remainingSpace, Int2Num(childCount + 1))
    [] OTHER -> Zero

calculateSpaceBetween(justifyContent, remainingSpace, childCount) ==
  CASE justifyContent = "space-between" ->
         IF childCount > 1
         THEN Over(remainingSpace, Int2Num(childCount - 1))
         ELSE Zero
    [] justifyContent = "space-around" -> Over(remainingSpace, Int2Num(childCount))
    [] justifyContent = "space-evenly" ->
         Over(remainingSpace, Int2Num(childCount + 1))
    [] OTHER -> Zero

calculateCrossAxisPosition(alignItems, childCrossSize, crossAxisSize) ==
  CASE alignItems = "flex-start" -> Zero
    [] alignItems = "flex-end" -> Minus(crossAxisSize, childCrossSize)
    [] alignItems = "center" -> Over(Minus(crossAxisSize, childCrossSize), Two)
    [] alignItems = "stretch" -> Zero
    [] OTHER -> Undefined

\* calculateCrossAxisSize where stretch only ever enlarges a child
calculateCrossAxisSize_NeverShrink(alignItems, childCrossSize, crossAxisSize) ==
  IF alignItems = "stretch" /\ Greater(crossAxisSize, childCrossSize)
  THEN crossAxisSize
  ELSE childCrossSize

calculateCrossAxisSize(alignItems, childCrossSize, crossAxisSize) ==
  IF alignItems = "stretch" THEN crossAxisSize ELSE childCrossSize

isMeasurable(a) == a.type \in {"box", "image", "text", "flexbox"}

\* the measure loop body: <<mainSize, crossSize>> of one child
MeasureChild(child, isRow, contentWidth, contentHeight) ==
  IF isMeasurable(child)
  THEN IF child.measure = "proportional"
       THEN LET widthValue == Times(contentWidth, child.width)
                heightValue == Times(contentHeight, child.height)
            IN IF isRow THEN <<widthValue, heightValue>>
               ELSE <<heightValue, widthValue>>
       ELSE IF isRow THEN <<child.width, child.height>>
            ELSE <<child.height, child.width>>
  ELSE <<Zero, Zero>>

RECURSIVE SumFrom(_, _, _)
\* childSizes.reduce((sum, size) => sum + size, 0), from index i with sum so far
SumFrom(sizes, i, sum) ==
  IF i > Len(sizes) THEN sum ELSE SumFrom(sizes, i + 1, Plus(sum, sizes[i]))

\* SlotRect that places the slots from the container's origin, without its padding
SlotRect_NoPadding(isRow, bounds, padding, currentPos, crossPos, mainSize, finalCrossSize) ==
  IF isRow
  THEN [x |-> Plus(bounds.x, currentPos),
        y |-> Plus(bounds.y, crossPos),
        width |-> mainSize,
        height |-> finalCrossSize]
  ELSE [x |-> Plus(bounds.x, crossPos),
        y |-> Plus(bounds.y, currentPos),
        width |-> finalCrossSize,
        height |-> mainSize]

\* SlotRect whose column branch keeps width and height as in a row
SlotRect_ColumnUntransposed(isRow, bounds, padding, currentPos, crossPos, mainSize, finalCrossSize) ==
  IF isRow
  THEN [x |-> Plus(Plus(bounds.x, padding), currentPos),
        y |-> Plus(Plus(bounds.y, padding), crossPos),
        width |-> mainSize,
        height |-> finalCrossSize]
  ELSE [x |-> Plus(Plus(bounds.x, padding), crossPos),
        y |-> Plus(Plus(bounds.y, padding), currentPos),
        width |-> mainSize,
        height |-> finalCrossSize]

SlotRect(isRow, bounds, padding, currentPos, crossPos, mainSize, finalCrossSize) ==
  IF isRow
  THEN [x |-> Plus(Plus(bounds.x, padding), currentPos),
        y |-> Plus(Plus(bounds.y, padding), crossPos),
        width |-> mainSize,
        height |-> finalCrossSize]
  ELSE [x |-> Plus(Plus(bounds.x, padding), crossPos),
        y |-> Plus(Plus(bounds.y, padding), currentPos),
        width |-> finalCrossSize,
        height |-> mainSize]

RECURSIVE PositionChildren(_, _, _, _, _, _, _, _)

\* the position loop stopping one child early (i < length - 1)
PositionChildren_SkipLast(f, i, currentPos, spaceBetween, sizes, bounds, crossAxisSize, layouts) ==
  LET a == attr[f]
      kids == children[f]
  IN IF i >= Len(kids) THEN layouts
     ELSE LET child == kids[i]
              mainSize == sizes[i][1]
              childCrossSize == sizes[i][2]
              crossPos == calculateCrossAxisPosition(a.alignItems, childCrossSize,
                                                     crossAxisSize)
              finalCrossSize == calculateCrossAxisSize(a.alignItems, childCrossSize,
                                                       crossAxisSize)
              layout == SlotRect(a.direction = "row", bounds, a.padding, currentPos,
                                 crossPos, mainSize, finalCrossSize)
              nextPos == Plus(Plus(Plus(currentPos, mainSize),
                                   IF i < Len(kids) THEN a.gap ELSE Zero),
                              spaceBetween)
          IN PositionChildren(f, i + 1, nextPos, spaceBetween, sizes, bounds,
                              crossAxisSize, (child :> layout) @@ layouts)

\* the position loop advancing without the gap
PositionChildren_IgnoreGap(f, i, currentPos, spaceBetween, sizes, bounds, crossAxisSize, layouts) ==
  LET a == attr[f]
      kids == children[f]
  IN IF i > Len(kids) THEN layouts
     ELSE LET child == kids[i]
              mainSize == sizes[i][1]
              childCrossSize == sizes[i][2]
              crossPos == calculateCrossAxisPosition(a.alignItems, childCrossSize,
                                                     crossAxisSize)
              finalCrossSize == calculateCrossAxisSize(a.alignItems, childCrossSize,
                                                       crossAxisSize)
              layout == SlotRect(a.direction = "row", bounds, a.padding, currentPos,
                                 crossPos, mainSize, finalCrossSize)
              nextPos == Plus(Plus(currentPos, mainSize), spaceBetween)
          IN PositionChildren(f, i + 1, nextPos, spaceBetween, sizes, bounds,
                              crossAxisSize, (child :> layout) @@ layouts)

\* the position loop from index i on; layouts is the map built so far
PositionChildren(f, i, currentPos, spaceBetween, sizes, bounds, crossAxisSize, layouts) ==
  LET a == attr[f]
      kids == children[f]
  IN IF i > Len(kids) THEN layouts
     ELSE LET child == kids[i]
              mainSize == sizes[i][1]
              childCrossSize == sizes[i][2]
              crossPos == calculateCrossAxisPosition(a.alignItems, childCrossSize,
                                                     crossAxisSize)
              finalCrossSize == calculateCrossAxisSize(a.alignItems, childCrossSize,
                                                       crossAxisSize)
              layout == SlotRect(a.direction = "row", bounds, a.padding, currentPos,
                                 crossPos, mainSize, finalCrossSize)
              nextPos == Plus(Plus(Plus(currentPos, mainSize),
                                   IF i < Len(kids) THEN a.gap ELSE Zero),
                              spaceBetween)
          IN PositionChildren(f, i + 1, nextPos, spaceBetween, sizes, bounds,
                              crossAxisSize, (child :> layout) @@ layouts)

EmptyLayouts == [c \in {} |-> NoRect]

\* Measure with the remaining space clamped at 0
Measure_Clamped(f, bounds) ==
  LET a == attr[f]
      kids == children[f]
      contentWidth == Minus(bounds.width, Times(a.padding, Two))
      contentHeight == Minus(bounds.height, Times(a.padding, Two))
      isRow == a.direction = "row"
      mainAxisSize == IF isRow THEN contentWidth ELSE contentHeight
      crossAxisSize == IF isRow THEN contentHeight ELSE contentWidth
      sizes == [i \in 1..Len(kids) |->
                  MeasureChild(attr[kids[i]], isRow, contentWidth, contentHeight)]
      totalGap == Times(a.gap, Int2Num(Len(kids) - 1))
      totalChildSize == SumFrom([i \in 1..Len(kids) |-> sizes[i][1]], 1, Zero)
      remainingSpace == Minus(Minus(mainAxisSize, totalChildSize), totalGap)
  IN [contentWidth |-> contentWidth, contentHeight |-> contentHeight,
      mainAxisSize |-> mainAxisSize, crossAxisSize |-> crossAxisSize,
      sizes |-> sizes,
      remainingSpace |-> IF Greater(Zero, remainingSpace) THEN Zero
                         ELSE remainingSpace]

\* the measure phase of performLayout (lines 670-717) for f resolved to bounds
Measure(f, bounds) ==
  LET a == attr[f]
      kids == children[f]
      contentWidth == Minus(bounds.width, Times(a.padding, Two))
      contentHeight == Minus(bounds.height, Times(a.padding, Two))
      isRow == a.direction = "row"
      mainAxisSize == IF isRow THEN contentWidth ELSE contentHeight
      crossAxisSize == IF isRow THEN contentHeight ELSE contentWidth
      sizes == [i \in 1..Len(kids) |->
                  MeasureChild(attr[kids[i]], isRow, contentWidth, contentHeight)]
      totalGap == Times(a.gap, Int2Num(Len(kids) - 1))
      totalChildSize == SumFrom([i \in 1..Len(kids) |-> sizes[i][1]], 1, Zero)
      remainingSpace == Minus(Minus(mainAxisSize, totalChildSize), totalGap)
  IN [contentWidth |-> contentWidth, contentHeight |-> contentHeight,
      mainAxisSize |-> mainAxisSize, crossAxisSize |-> crossAxisSize,
      sizes |-> sizes, remainingSpace |-> remainingSpace]

\* the cache of f after a performLayout that resolved its rectangle to bounds
LayoutChildren(f, bounds) ==
  LET a == attr[f]
      kids == children[f]
  IN IF Len(kids) = 0 THEN EmptyLayouts
     ELSE Bind(Measure(f, bounds), LAMBDA m :
            PositionChildren(f, 1,
                             calculateJustifyStart(a.justifyContent, Len(kids),
                                                   m.remainingSpace),
                             calculateSpaceBetween(a.justifyContent,
                                                   m.remainingSpace, Len(kids)),
                             m.sizes, bounds, m.crossAxisSize, EmptyLayouts))

\* performLayout whose early return tests the cache instead of the children:
\* a filled cache is cleared and left empty
performLayout_ReturnOnCache(cl, f) ==
  LET bounds == GetBounds(cl, f, NoPage)
  IN IF bounds.ok
     THEN [ok |-> TRUE, err |-> "", rect |-> bounds.rect,
           layouts |-> IF DOMAIN cl[f] # {} THEN EmptyLayouts
                       ELSE LayoutChildren(f, bounds.rect)]
     ELSE [ok |-> FALSE, err |-> bounds.err, rect |-> NoRect, layouts |-> cl[f]]

\* performLayout that refuses children that overflow the container
performLayout_RejectOverflow(cl, f) ==
  LET bounds == GetBounds(cl, f, NoPage)
  IN IF bounds.ok /\ ~Greater(Zero, Measure(f, bounds.rect).remainingSpace)
     THEN [ok |-> TRUE, err |-> "", rect |-> bounds.rect,
           layouts |-> LayoutChildren(f, bounds.rect)]
     ELSE [ok |-> FALSE, err |-> IF bounds.ok THEN "overflow" ELSE bounds.err,
           rect |-> NoRect, layouts |-> cl[f]]

\* performLayout that clears the cache before it resolves the container
performLayout_ClearFirst(cl, f) ==
  LET bounds == GetBounds(cl, f, NoPage)
  IN IF bounds.ok
     THEN [ok |-> TRUE, err |-> "", rect |-> bounds.rect,
           layouts |-> LayoutChildren(f, bounds.rect)]
     ELSE [ok |-> FALSE, err |-> bounds.err, rect |-> NoRect,
           layouts |-> EmptyLayouts]

\* performLayout(): the outcome and the cache of f it leaves
performLayout(cl, f) ==
  Bind(GetBounds(cl, f, NoPage), LAMBDA bounds :
    IF bounds.ok
    THEN [ok |-> TRUE, err |-> "", rect |-> bounds.rect,
          layouts |-> LayoutChildren(f, bounds.rect)]
    ELSE [ok |-> FALSE, err |-> bounds.err, rect |-> NoRect, layouts |-> cl[f]])

(***************************************************************************)
(* layout(doc, node): the drawing pass.  st is the progress of the pass:    *)
(* the caches so far, the calls made so far (performLayout and getBounds   *)
(* of the nodes; image, heightOfString, text and rect of the document) and *)
(* whether an error was thrown.  heightOfString[n] is what the document    *)
(* answers for the string of Text n.                                       *)
(***************************************************************************)
TextHeights == {Int2Num(12), Int2Num(45)}

isImage(a) == a.type = "image"
isText(a) == a.type = "text"

Event(op, n, res) ==
  [op |-> op, node |-> n, ok |-> res.ok, err |-> res.err,
   rect |-> Geometry(res.rect)]

Emit(st, op, n, res) ==
  [st EXCEPT !.events = Append(@, Event(op, n, res)),
             !.ok = res.ok,
             !.err = res.err]

\* TextPosition that leaves out the adjustment by the measured height
TextPosition_NoAdjustment(a, size, height) ==
  LET xPos == Plus(size.x, a.padding)
      yPos == IF a.verticalAlign = "top" THEN Plus(size.y, a.padding)
              ELSE IF a.verticalAlign = "middle"
                   THEN Plus(size.y, Over(size.height, Two))
              ELSE Minus(Plus(size.y, size.height), a.padding)
  IN [x |-> xPos, y |-> yPos]

\* xPos and yPos - adjustment of the text of node a in rectangle size
TextPosition(a, size, height) ==
  LET xPos == Plus(size.x, a.padding)
      yPos == IF a.verticalAlign = "top" THEN Plus(size.y, a.padding)
              ELSE IF a.verticalAlign = "middle"
                   THEN Plus(size.y, Over(size.height, Two))
              ELSE Minus(Plus(size.y, size.height), a.padding)
      adjustment == IF a.verticalAlign = "bottom" THEN height
                    ELSE IF a.verticalAlign = "middle" THEN Over(height, Two)
                    ELSE Zero
  IN [x |-> xPos, y |-> Minus(yPos, adjustment)]

\* the isText block: heightOfString, then text
DrawText(st, n, size, height) ==
  LET a == attr[n]
      textOptions == [height |-> Minus(size.height, Times(a.padding, Two)),
                      width |-> Minus(size.width, Times(a.padding, Two))]
      pos == TextPosition(a, size, height)
      measured == Emit(st, "heightOfString", n,
                       Return(Rect(Undefined, Undefined, textOptions.width,
                                   height, Undefined)))
  IN Emit(measured, "text", n,
          Return(Rect(pos.x, pos.y, textOptions.width, textOptions.height,
                      Undefined)))

\* TriggerLayout that runs performLayout only on a FlexBox whose cache is empty
TriggerLayout_OnlyWhenEmpty(st, node) ==
  IF isFlexBox(attr[node]) /\ DOMAIN st.cl[node] = {}
  THEN Bind(performLayout(st.cl, node),
            LAMBDA laid : [Emit(st, "performLayout", node, laid) EXCEPT
                             !.cl = [st.cl EXCEPT ![node] = laid.layouts]])
  ELSE st

\* if (isFlexBox(node)) node.performLayout()
TriggerLayout(st, node) ==
  IF isFlexBox(attr[node])
  THEN Bind(performLayout(st.cl, node),
            LAMBDA laid : [Emit(st, "performLayout", node, laid) EXCEPT
                             !.cl = [st.cl EXCEPT ![node] = laid.layouts]])
  ELSE st

\* the drawing calls after the children: text if Text, then rect if bordered
DrawOwn(st, node, size, heightOfString) ==
  Bind(IF isText(attr[node])
       THEN DrawText(st, node, size.rect, heightOfString[node])
       ELSE st,
       LAMBDA st5 : IF Greater(attr[node].borderWidth, Zero)
                    THEN Emit(st5, "rect", node, size)
                    ELSE st5)

RECURSIVE layout(_, _, _, _)
RECURSIVE layoutChildren(_, _, _, _, _)

\* for (const child of node.children) layout(doc, child), from index i on
layoutChildren(st, node, i, page, heightOfString) ==
  IF ~st.ok \/ i > Len(children[node]) THEN st
  ELSE Bind(layout(st, children[node][i], page, heightOfString),
            LAMBDA next : layoutChildren(next, node, i + 1, page, heightOfString))

\* layout(doc, node) from the progress st0; every step ends the pass when
\* it throws
layout(st0, node, page, heightOfString) ==
  Bind(TriggerLayout(st0, node), LAMBDA st1 :
    IF ~st1.ok THEN st1
    ELSE Bind(GetBounds(st1.cl, node, page), LAMBDA size :
           Bind(Emit(st1, "getBounds", node, size), LAMBDA st2 :
             IF ~st2.ok THEN st2
             ELSE Bind(layoutChildren(IF isImage(attr[node])
                                      THEN Emit(st2, "image", node, size)
                                      ELSE st2,
                                      node, 1, page, heightOfString),
                       LAMBDA st4 :
                         IF ~st4.ok THEN st4
                         ELSE DrawOwn(st4, node, size, heightOfString)))))

(***************************************************************************)
(* The state machine of the library: the nodes are constructed (Init),     *)
(* then the program calls addChild, performLayout, getBounds and           *)
(* computeChildLayout in any order.  call records the last call and its    *)
(* outcome; call.repeat marks a performLayout that directly follows a      *)
(* performLayout of the same container.  retry follows the sequence        *)
(* "resolution of a child of a FlexBox failed with the layout-not-computed *)
(* error (stage 1), then performLayout ran on its parent (stage 2, laidOut *)
(* when it returned), then the same child was resolved again (stage 3)".   *)
(***************************************************************************)
NoCalc ==
  [pc |-> "idle", justifyContent |-> "none", childCount |-> 0,
   remainingSpace |-> Undefined, start |-> Undefined, between |-> Undefined]

NoRetry == [node |-> NoNode, stage |-> 0, laidOut |-> FALSE]

\* no layout pass ran since the tree last changed
NoPass == [root |-> NoNode, page |-> NoPage, ok |-> TRUE, err |-> "", events |-> << >>]

Call(op, n, arg, res) ==
  [op |-> op, node |-> n, arg |-> arg, ok |-> res.ok, err |-> res.err,
   rect |-> res.rect, repeat |-> FALSE]

RECURSIVE TotalChildren(_)
\* the number of addChild calls made so far
TotalChildren(n) ==
  IF n = 0 THEN 0 ELSE Len(children[n]) + TotalChildren(n - 1)

Init ==
  /\ \E s \in 1..Len(Scenes) : attr = [n \in Node |-> SceneNode(s, n)]
  /\ parentBox = [n \in Node |-> NoNode]
  /\ children = [n \in Node |-> << >>]
  /\ childLayouts = [n \in Node |-> EmptyLayouts]
  /\ call = Call("new", NoNode, 0, Return(NoRect))
  /\ retry = NoRetry
  /\ calc = NoCalc
  /\ pass = NoPass

RECURSIVE Subtree(_, _)
\* the nodes reachable from n over children edges in at most k steps
Subtree(n, k) ==
  IF k = 0 THEN {n}
  ELSE {n} \cup UNION {Subtree(children[n][i], k - 1) : i \in 1..Len(children[n])}

\* The program keeps the graph free of cycles (a node is never attached
\* below itself: every traversal of a cyclic graph diverges); it may attach
\* a node a second time or under a second parent.
addChild(p, c) ==
  /\ TotalChildren(NumNodes) < MaxAdds
  /\ p \notin Subtree(c, NumNodes)
  /\ parentBox' = [parentBox EXCEPT ![c] = p]
  /\ children' = [children EXCEPT ![p] = Append(@, c)]
  /\ call' = Call("addChild", p, c, Return(NoRect))
  /\ retry' = NoRetry
  /\ pass' = NoPass
  /\ UNCHANGED <<attr, childLayouts, calc>>

getBoundsCall(n, pg) ==
  \E res \in {getBounds(n, pg)} :
     /\ call' = Call("getBounds", n, pg, res)
     /\ retry' = IF retry.stage = 2 /\ retry.node = n
                 THEN [retry EXCEPT !.stage = 3]
                 ELSE IF /\ ~res.ok
                         /\ res.err = ErrNotComputed
                         /\ parentBox[n] # NoNode
                         /\ isFlexBox(attr[parentBox[n]])
                 THEN [node |-> n, stage |-> 1, laidOut |-> FALSE]
                 ELSE NoRetry
     /\ UNCHANGED <<attr, parentBox, children, childLayouts, calc, pass>>

computeChildLayoutCall(f, c) ==
  /\ isFlexBox(attr[f])
  /\ call' = Call("computeChildLayout", f, c, computeChildLayout(childLayouts, f, c))
  /\ retry' = NoRetry
  /\ UNCHANGED <<attr, parentBox, children, childLayouts, calc, pass>>

\* performLayoutCall that also empties the cache of every other FlexBox
performLayoutCall_ClearsOthers(f) ==
  /\ isFlexBox(attr[f])
  /\ \E res \in {performLayout(childLayouts, f)} :
        /\ childLayouts' = [g \in Node |->
                              IF g = f THEN res.layouts ELSE EmptyLayouts]
        /\ call' = [Call("performLayout", f, 0, res) EXCEPT
                       !.repeat = (call.op = "performLayout" /\ call.node = f)]
        /\ retry' = IF retry.stage = 1 /\ parentBox[retry.node] = f
                    THEN [node |-> retry.node, stage |-> 2, laidOut |-> res.ok]
                    ELSE NoRetry
  /\ UNCHANGED <<attr, parentBox, children, calc, pass>>

performLayoutCall(f) ==
  /\ isFlexBox(attr[f])
  /\ \E res \in {performLayout(childLayouts, f)} :
        /\ childLayouts' = [childLayouts EXCEPT ![f] = res.layouts]
        /\ call' = [Call("performLayout", f, 0, res) EXCEPT
                       !.repeat = (call.op = "performLayout" /\ call.node = f)]
        /\ retry' = IF retry.stage = 1 /\ parentBox[retry.node] = f
                    THEN [node |-> retry.node, stage |-> 2, laidOut |-> res.ok]
                    ELSE NoRetry
  /\ UNCHANGED <<attr, parentBox, children, calc, pass>>

Next ==
  \/ \E p \in Node, c \in Node : addChild(p, c)
  \/ \E n \in Node, pg \in PageArg : getBoundsCall(n, pg)
  \/ \E f \in Node, c \in Node : computeChildLayoutCall(f, c)
  \/ \E f \in Node : performLayoutCall(f)

Spec == Init /\ [][Next]_vars

(***************************************************************************)
(* A program that builds a tree and draws it: the nodes are constructed,   *)
(* attached with addChild and drawn with layout(doc, node) on a document   *)
(* that has a current page.                                                *)
(***************************************************************************)
LayoutScenes ==
  << <<13, 2, 11, 7>>,
     <<13, 7, 10, 6>>,
     <<6, 10, 5, 2>>,
     <<7, 6, 12, 2>>,
     <<8, 9, 12, 2>>,
     <<1, 10, 11, 6>> >>

LayoutSceneNode(s, n) ==
  NodePool[LayoutScenes[s][((n - 1) % Len(LayoutScenes[s])) + 1]]

InitLayout ==
  /\ \E s \in 1..Len(LayoutScenes) : attr = [n \in Node |-> LayoutSceneNode(s, n)]
  /\ parentBox = [n \in Node |-> NoNode]
  /\ children = [n \in Node |-> << >>]
  /\ childLayouts = [n \in Node |-> EmptyLayouts]
  /\ call = Call("new", NoNode, 0, Return(NoRect))
  /\ retry = NoRetry
  /\ calc = NoCalc
  /\ pass = NoPass

\* the Text nodes a pass from root can reach
TextNodes(root) == {n \in Subtree(root, NumNodes) : isText(attr[n])}

layoutCall(root, page, heightOfString) ==
  \E st \in {layout([cl |-> childLayouts, events |-> << >>, ok |-> TRUE, err |-> ""],
                     root, page, heightOfString)} :
     /\ childLayouts' = st.cl
     /\ pass' = [root |-> root, page |-> page, ok |-> st.ok, err |-> st.err,
                 events |-> st.events]
     /\ call' = Call("layout", root, page, [ok |-> st.ok, err |-> st.err, rect |-> NoRect])
     /\ retry' = NoRetry
     /\ UNCHANGED <<attr, parentBox, children, calc>>

NextLayout ==
  \/ \E p \in Node, c \in Node : addChild(p, c)
  \/ \E root \in Node, page \in 1..Len(Pages) :
       \E heightOfString \in [TextNodes(root) -> TextHeights] :
         layoutCall(root, page, heightOfString)

SpecLayout == InitLayout /\ [][NextLayout]_vars

(***************************************************************************)
(* performLayout as a function of the container's configuration and of    *)
(* its children's sizes: node 1 is an Absolute FlexBox built from one of    *)
(* the frames with every combination of padding, gap, direction,           *)
(* justifyContent and alignItems; it holds the nodes 2..k+1, each one of    *)
(* the child boxes.  The program runs performLayout on the container and   *)
(* resolves the children.                                                  *)
(***************************************************************************)
Frames ==
  << [x |-> Zero, y |-> Zero, width |-> Int2Num(400), height |-> Int2Num(100),
      margin |-> Undefined],
     [x |-> Int2Num(20), y |-> Int2Num(30), width |-> Int2Num(300),
      height |-> Int2Num(200), margin |-> Int2Num(5)] >>

Paddings == {Undefined, Int2Num(60)}

Gaps == {Undefined, Int2Num(20)}

Directions == {"undefined", "column"}

ChildPool ==
  << NewBox("box", BoxProps(Int2Num(7), Int2Num(9), Int2Num(100), Int2Num(50),
                            Undefined, Undefined, "absolute")),
     NewBox("box", BoxProps(Rat(1, 2), Rat(1, 4), Rat(1, 2), Rat(1, 4),
                            Int2Num(10), Undefined, "proportional")),
     NewBox("image", BoxProps(Int2Num(10), Int2Num(20), Int2Num(300), Int2Num(120),
                              Undefined, Int2Num(5), "absolute")) >>

Container == 1

InitDistribute ==
  /\ \E frame \in 1..Len(Frames), padding \in Paddings, gap \in Gaps,
        direction \in Directions, justify \in JustifyValues, align \in AlignValues,
        k \in 0..(NumNodes - 1), kinds \in [2..NumNodes -> 1..Len(ChildPool)] :
        /\ \A n \in 2..NumNodes : n > k + 1 => kinds[n] = 1
        /\ attr = [n \in Node |->
                     IF n = Container
                     THEN NewFlexBox(FlexBoxProps(Frames[frame].x, Frames[frame].y,
                                                  Frames[frame].width,
                                                  Frames[frame].height, padding,
                                                  Frames[frame].margin, "absolute",
                                                  direction, justify, align, gap))
                     ELSE ChildPool[kinds[n]]]
        /\ parentBox = [n \in Node |->
                          IF n # Container /\ n <= k + 1 THEN Container ELSE NoNode]
        /\ children = [n \in Node |->
                         IF n = Container THEN [i \in 1..k |-> i + 1] ELSE << >>]
  /\ childLayouts = [n \in Node |-> EmptyLayouts]
  /\ call = Call("new", NoNode, 0, Return(NoRect))
  /\ retry = NoRetry
  /\ calc = NoCalc
  /\ pass = NoPass

NextDistribute ==
  \/ performLayoutCall(Container)
  \/ \E n \in Node \ {Container} : getBoundsCall(n, NoPage)

SpecDistribute == InitDistribute /\ [][NextDistribute]_vars

(***************************************************************************)
(* The constructors of Box, Image and Text as functions of the width and   *)
(* height properties: the program constructs one node, with one size a     *)
(* number or any string of at most MaxStrLen characters and the other      *)
(* size one of a few values, and resolves it.                              *)
(***************************************************************************)
MaxStrLen == 3

Strings == UNION {[1..k -> Chars] : k \in 1..MaxStrLen}

SizeInputs == {Int2Num(120), Rat(1, 2)} \cup {Str(s) : s \in Strings}

OtherSizeInputs == {Int2Num(100), Str(<<"5", "0", "%">>), Str(<<"5", "0">>)}

ConstructedTypes == {"box", "image", "text"}

InitConstruct ==
  /\ attr = [n \in Node |-> Unbuilt]
  /\ parentBox = [n \in Node |-> NoNode]
  /\ children = [n \in Node |-> << >>]
  /\ childLayouts = [n \in Node |-> EmptyLayouts]
  /\ call = Call("start", NoNode, 0, Return(NoRect))
  /\ retry = NoRetry
  /\ calc = NoCalc
  /\ pass = NoPass

\* const n = new Box(props) / new Image(props) / new Text(props)
constructCall(n, type, props) ==
  /\ call.op = "start"
  /\ \A m \in Node : n <= m
  /\ \E res \in {Construct(type, props)} :
        /\ attr' = [attr EXCEPT ![n] = res.node]
        /\ call' = Call("new", n, [type |-> type, props |-> props],
                        [ok |-> res.ok, err |-> res.err, rect |-> NoRect])
  /\ retry' = NoRetry
  /\ UNCHANGED <<parentBox, children, childLayouts, calc, pass>>

\* n.getBounds(page) on a constructed node
resolveCall(n, pg) ==
  /\ attr[n] # Unbuilt
  /\ getBoundsCall(n, pg)

NextConstruct ==
  \/ \E n \in Node, type \in ConstructedTypes, size \in SizeInputs,
        other \in OtherSizeInputs, swap \in BOOLEAN,
        measure \in {"undefined", "absolute"} :
        constructCall(n, type,
                      TextProps(Undefined, Undefined,
                                IF swap THEN other ELSE size,
                                IF swap THEN size ELSE other,
                                Undefined, Undefined, Undefined, measure,
                                "undefined"))
  \/ \E n \in Node, pg \in PageArg : resolveCall(n, pg)

SpecConstruct == InitConstruct /\ [][NextConstruct]_vars

(***************************************************************************)
(* Nodes that differ only in margin: node 1 is an anchor (a page-anchored  *)
(* Proportional Box, an Absolute Box or an Absolute FlexBox) and the other  *)
(* nodes are constructed from the same properties except margin, and are  *)
(* either attached to the anchor or left without parent.  The program      *)
(* resolves them and runs performLayout.                                   *)
(***************************************************************************)
AnchorPool == << NodePool[13], NodePool[1], NodePool[6] >>

TwinPool == << NodePool[4], NodePool[7], NodePool[2] >>

Margins == {Zero, Int2Num(5), Int2Num(10)}

\* the node the constructor makes from the same properties with margin m
WithMargin(a, m) == [a EXCEPT !.margin = m]

InitMargin ==
  /\ \E anchor \in 1..Len(AnchorPool), attached \in BOOLEAN,
        kind \in 1..Len(TwinPool), margins \in [2..NumNodes -> Margins] :
        /\ attr = [n \in Node |->
                     IF n = 1 THEN AnchorPool[anchor]
                     ELSE WithMargin(TwinPool[kind], margins[n])]
        /\ parentBox = [n \in Node |-> IF n > 1 /\ attached THEN 1 ELSE NoNode]
        /\ children = [n \in Node |->
                         IF n = 1 /\ attached
                         THEN [i \in 1..(NumNodes - 1) |-> i + 1]
                         ELSE << >>]
  /\ childLayouts = [n \in Node |-> EmptyLayouts]
  /\ call = Call("new", NoNode, 0, Return(NoRect))
  /\ retry = NoRetry
  /\ calc = NoCalc
  /\ pass = NoPass

NextMargin ==
  \/ \E n \in Node, pg \in PageArg : getBoundsCall(n, pg)
  \/ \E f \in Node : performLayoutCall(f)

SpecMargin == InitMargin /\ [][NextMargin]_vars

(***************************************************************************)
(* A container and its transpose: the nodes 1..NumNodes are a container    *)
(* and its children as above, and node n + NumNodes is constructed from    *)
(* the properties of node n with x and y, width and height, and row and    *)
(* column swapped.  The program runs performLayout on both containers.     *)
(***************************************************************************)
Mirror(n) == n + NumNodes

MirrorNode == {Mirror(n) : n \in Node}

\* the node constructed from the properties of a with x and y, width and
\* height, and row and column swapped
Transposed(a) ==
  [a EXCEPT !.x = a.y, !.y = a.x, !.width = a.height, !.height = a.width,
            !.direction = IF a.direction = "row" THEN "column"
                          ELSE IF a.direction = "column" THEN "row"
                          ELSE a.direction]

InitTranspose ==
  /\ \E frame \in 1..Len(Frames), padding \in Paddings, gap \in Gaps,
        direction \in Directions, justify \in JustifyValues, align \in AlignValues,
        k \in 0..(NumNodes - 1), kinds \in [2..NumNodes -> 1..Len(ChildPool)] :
        /\ \A n \in 2..NumNodes : n > k + 1 => kinds[n] = 1
        /\ \E row \in {[n \in Node |->
                           IF n = Container
                           THEN NewFlexBox(FlexBoxProps(Frames[frame].x,
                                                        Frames[frame].y,
                                                        Frames[frame].width,
                                                        Frames[frame].height,
                                                        padding,
                                                        Frames[frame].margin,
                                                        "absolute", direction,
                                                        justify, align, gap))
                           ELSE ChildPool[kinds[n]]]} :
              attr = [n \in Node \cup MirrorNode |->
                        IF n \in Node THEN row[n]
                        ELSE Transposed(row[n - NumNodes])]
        /\ parentBox = [n \in Node \cup MirrorNode |->
                          IF n \in 2..(k + 1) THEN Container
                          ELSE IF n \in (NumNodes + 2)..(NumNodes + k + 1)
                          THEN Mirror(Container)
                          ELSE NoNode]
        /\ children = [n \in Node \cup MirrorNode |->
                         IF n = Container THEN [i \in 1..k |-> i + 1]
                         ELSE IF n = Mirror(Container)
                         THEN [i \in 1..k |-> Mirror(i + 1)]
                         ELSE << >>]
  /\ childLayouts = [n \in Node \cup MirrorNode |-> EmptyLayouts]
  /\ call = Call("new", NoNode, 0, Return(NoRect))
  /\ retry = NoRetry
  /\ calc = NoCalc
  /\ pass = NoPass

NextTranspose ==
  \/ performLayoutCall(Container)
  \/ performLayoutCall(Mirror(Container))

SpecTranspose == InitTranspose /\ [][NextTranspose]_vars

(***************************************************************************)
(* A FlexBox that is moved: node Outer (an Absolute FlexBox or an Absolute *)
(* Box) holds the Proportional FlexBox Inner, which holds the nodes        *)
(* 3..NumNodes; node Elsewhere (a FlexBox or a Proportional Box without    *)
(* parent) holds nothing.  The program runs performLayout, resolves nodes  *)
(* and makes one more addChild call.                                       *)
(***************************************************************************)
Outer == 1

Inner == 2

Elsewhere == NumNodes + 1

MovedNode == Node \cup {Elsewhere}

OuterPool == << NodePool[6], NodePool[1] >>

ElsewherePool == << NodePool[9], NodePool[13] >>

InitMove ==
  /\ \E outer \in 1..Len(OuterPool), elsewhere \in 1..Len(ElsewherePool),
        kinds \in [3..NumNodes -> 1..Len(ChildPool)] :
        attr = [n \in MovedNode |->
                  IF n = Outer THEN OuterPool[outer]
                  ELSE IF n = Inner THEN NodePool[7]
                  ELSE IF n = Elsewhere THEN ElsewherePool[elsewhere]
                  ELSE ChildPool[kinds[n]]]
  /\ parentBox = [n \in MovedNode |->
                    IF n = Inner THEN Outer
                    ELSE IF n \in 3..NumNodes THEN Inner
                    ELSE NoNode]
  /\ children = [n \in MovedNode |->
                   IF n = Outer THEN <<Inner>>
                   ELSE IF n = Inner THEN [i \in 1..(NumNodes - 2) |-> i + 2]
                   ELSE << >>]
  /\ childLayouts = [n \in MovedNode |-> EmptyLayouts]
  /\ call = Call("new", NoNode, 0, Return(NoRect))
  /\ retry = NoRetry
  /\ calc = NoCalc
  /\ pass = NoPass

\* p.addChild(c), the one addChild call after the tree was built
moveChild(p, c) ==
  /\ TotalChildren(Elsewhere) < NumNodes
  /\ p \notin Subtree(c, Elsewhere)
  /\ parentBox' = [parentBox EXCEPT ![c] = p]
  /\ children' = [children EXCEPT ![p] = Append(@, c)]
  /\ call' = Call("addChild", p, c, Return(NoRect))
  /\ retry' = NoRetry
  /\ pass' = NoPass
  /\ UNCHANGED <<attr, childLayouts, calc>>

NextMove ==
  \/ \E p \in MovedNode, c \in MovedNode : moveChild(p, c)
  \/ \E n \in MovedNode, pg \in PageArg : getBoundsCall(n, pg)
  \/ \E f \in MovedNode : performLayoutCall(f)

SpecMove == InitMove /\ [][NextMove]_vars

(***************************************************************************)
(* calculateJustifyStart and calculateSpaceBetween as pure functions of    *)
(* justifyContent, the child count and the remaining space.                *)
(***************************************************************************)
RemainingValues ==
  {Int2Num(-60), Int2Num(-7), Zero, Int2Num(1), Int2Num(100), Int2Num(200),
   Rat(1, 2), Rat(-25, 3)}

InitJustify ==
  /\ attr = [n \in Node |-> NodePool[1]]
  /\ parentBox = [n \in Node |-> NoNode]
  /\ children = [n \in Node |-> << >>]
  /\ childLayouts = [n \in Node |-> EmptyLayouts]
  /\ call = Call("new", NoNode, 0, Return(NoRect))
  /\ retry = NoRetry
  /\ pass = NoPass
  /\ \E j \in JustifyValues, k \in 1..MaxChildCount, r \in RemainingValues :
       calc = [pc |-> "input", justifyContent |-> j, childCount |-> k,
               remainingSpace |-> r, start |-> Undefined, between |-> Undefined]

JustifyStartStep ==
  /\ calc.pc = "input"
  /\ calc' = [calc EXCEPT
                !.pc = "start",
                !.start = calculateJustifyStart(calc.justifyContent,
                                                calc.childCount,
                                                calc.remainingSpace)]
  /\ UNCHANGED <<attr, parentBox, children, childLayouts, call, retry, pass>>

SpaceBetweenStep ==
  /\ calc.pc = "start"
  /\ calc' = [calc EXCEPT
                !.pc = "done",
                !.between = calculateSpaceBetween(calc.justifyContent,
                                                  calc.remainingSpace,
                                                  calc.childCount)]
  /\ UNCHANGED <<attr, parentBox, children, childLayouts, call, retry, pass>>

NextJustify == JustifyStartStep \/ SpaceBetweenStep

SpecJustify == InitJustify /\ [][NextJustify]_vars

(***************************************************************************)
(* Properties.                                                             *)
(***************************************************************************)
IsGetBounds == call.op = "getBounds"

\* the node of the last call and its parent
CallAttr == attr[call.node]
CallParent == parentBox[call.node]

IsProportional(n) == attr[n].measure = "proportional"

NodeState == <<attr, parentBox, children, childLayouts>>

PlainFormula(a, base, P) ==
  [x |-> Plus(Plus(base.x, Times(base.width, a.x)), P),
   y |-> Plus(Plus(base.y, Times(base.height, a.y)), P),
   width |-> Minus(Times(base.width, a.width), Times(Two, P)),
   height |-> Minus(Times(base.height, a.height), Times(Two, P))]

\* C2: getBounds of a Proportional node whose parent is a plain (non-flex)
\* node is base.x + base.width*x + P, base.y + base.height*y + P,
\* base.width*width - 2P, base.height*height - 2P, with base the parent's
\* resolved rectangle and P the parent's padding.
C2_PlainParentFormula ==
  (/\ IsGetBounds
   /\ IsProportional(call.node)
   /\ CallParent # NoNode
   /\ ~isFlexBox(attr[CallParent])
   /\ getBounds(CallParent, call.arg).ok) =>
    /\ call.ok
    /\ Geometry(call.rect) =
         PlainFormula(CallAttr, getBounds(CallParent, call.arg).rect,
                      attr[CallParent].padding)

\* the chain of C3: node 1 the 800x600 Absolute root, node 2 the Box
\* (0.1, 0.1, 0.8, 0.8) below it, node 3 the Box (0.25, 0.25, 0.5, 0.5)
\* below node 2
IsNestedChain ==
  /\ attr[1] = NodePool[1]
  /\ attr[2] = NodePool[3]
  /\ attr[3] = NodePool[4]
  /\ parentBox[1] = NoNode
  /\ parentBox[2] = 1
  /\ parentBox[3] = 2

\* C3: in the chain 800x600 Absolute root -> (0.1, 0.1, 0.8, 0.8) ->
\* (0.25, 0.25, 0.5, 0.5) the middle node resolves to {80, 60, 640, 480} and
\* the innermost to {240, 180, 320, 240}.
C3_NestedChainBounds ==
  (IsNestedChain /\ IsGetBounds) =>
    /\ call.node = 2 =>
         /\ call.ok
         /\ Geometry(call.rect) = [x |-> Int2Num(80), y |-> Int2Num(60),
                                   width |-> Int2Num(640), height |-> Int2Num(480)]
    /\ call.node = 3 =>
         /\ call.ok
         /\ Geometry(call.rect) = [x |-> Int2Num(240), y |-> Int2Num(180),
                                   width |-> Int2Num(320), height |-> Int2Num(240)]

\* C4: getBounds of a Proportional node whose FlexBox parent holds a slot
\* for it is {slot.x + margin, slot.y + margin, slot.width - 2*margin,
\* slot.height - 2*margin}; the node's own x and y are not used.
C4_SlotBounds ==
  (/\ IsGetBounds
   /\ IsProportional(call.node)
   /\ CallParent # NoNode
   /\ isFlexBox(attr[CallParent])
   /\ call.node \in DOMAIN childLayouts[CallParent]) =>
    LET slot == childLayouts[CallParent][call.node]
    IN /\ call.ok
       /\ Geometry(call.rect) =
            [x |-> Plus(slot.x, CallAttr.margin),
             y |-> Plus(slot.y, CallAttr.margin),
             width |-> Minus(Minus(slot.width, CallAttr.margin), CallAttr.margin),
             height |-> Minus(Minus(slot.height, CallAttr.margin), CallAttr.margin)]

\* a Proportional node with a margin and a non-zero x fraction resolved from
\* a slot of non-zero width
C4_Witness ==
  /\ IsGetBounds
  /\ call.ok
  /\ IsProportional(call.node)
  /\ CallParent # NoNode
  /\ isFlexBox(attr[CallParent])
  /\ call.node \in DOMAIN childLayouts[CallParent]
  /\ CallAttr.margin # Zero
  /\ CallAttr.x # Zero
  /\ Greater(childLayouts[CallParent][call.node].width, Zero)

\* C5: getBounds on a Proportional node without parent and without page
\* fails with the missing-anchor error, and the call changes no node
\* attribute, no edge and no flex cache.
C5_MissingAnchor ==
  [][(/\ call'.op = "getBounds"
      /\ IsProportional(call'.node)
      /\ parentBox[call'.node] = NoNode
      /\ call'.arg = NoPage) =>
       /\ ~call'.ok
       /\ call'.err \in MissingAnchorErrors
       /\ NodeState' = NodeState]_vars

\* a parentless Proportional FlexBox resolved without page, after some
\* performLayout filled a cache
C5_Witness ==
  /\ IsGetBounds
  /\ ~call.ok
  /\ call.err \in MissingAnchorErrors
  /\ IsProportional(call.node)
  /\ isFlexBox(CallAttr)
  /\ CallParent = NoNode
  /\ call.arg = NoPage
  /\ \E f \in Node : DOMAIN childLayouts[f] # {}

\* the page's margin-adjusted content rectangle
PageContentRect(pg) ==
  [x |-> Pages[pg].margins.left,
   y |-> Pages[pg].margins.top,
   width |-> Minus(Pages[pg].width,
                   Plus(Pages[pg].margins.left, Pages[pg].margins.right)),
   height |-> Minus(Pages[pg].height,
                    Plus(Pages[pg].margins.top, Pages[pg].margins.bottom))]

\* C6: getBounds on a parentless Proportional node of any variant that is
\* given a page resolves against the page's content rectangle with padding 0.
C6_PageAnchor ==
  (/\ IsGetBounds
   /\ IsProportional(call.node)
   /\ CallParent = NoNode
   /\ call.arg # NoPage) =>
    /\ call.ok
    /\ Geometry(call.rect) = PlainFormula(CallAttr, PageContentRect(call.arg), Zero)

\* the steps of C7: a Proportional child of a FlexBox without cache entry
\* fails with the layout-not-computed error and changes nothing
FailsNotComputed ==
  (/\ call'.op = "getBounds"
   /\ IsProportional(call'.node)
   /\ parentBox[call'.node] # NoNode
   /\ isFlexBox(attr[parentBox[call'.node]])
   /\ call'.node \notin DOMAIN childLayouts[parentBox[call'.node]]) =>
    /\ ~call'.ok
    /\ call'.err = ErrNotComputed
    /\ NodeState' = NodeState

\* C7 as stated: resolving a Proportional child of a FlexBox without cache
\* entry fails with the layout-not-computed error and changes no state, and
\* after the caller ran the parent's performLayout the second resolution of
\* the child succeeds.
C7_RecoverAfterAnyLayout ==
  [][/\ FailsNotComputed
     /\ retry'.stage = 3 => call'.ok]_vars

\* C7 (amended): as C7, where the second resolution succeeds if the parent's
\* performLayout returned without error.
C7_RecoverAfterLayout ==
  [][/\ FailsNotComputed
     /\ (retry'.stage = 3 /\ retry'.laidOut) => call'.ok]_vars

\* a child attached after a first performLayout failed to resolve, the
\* parent's performLayout returned, and the child then resolved
C7_Witness ==
  /\ retry.stage = 3
  /\ retry.laidOut
  /\ IsGetBounds
  /\ call.ok
  /\ call.node = retry.node
  /\ Cardinality(DOMAIN childLayouts[CallParent]) >= 2

ChildSet(f) == {children[f][i] : i \in 1..Len(children[f])}

\* start offset and space after each child, by justifyContent (spec 4.2)
JustifyTable(justify, n, remaining) ==
  CASE justify = "flex-start" -> <<Zero, Zero>>
    [] justify = "flex-end" -> <<remaining, Zero>>
    [] justify = "center" -> <<Times(remaining, Rat(1, 2)), Zero>>
    [] justify = "space-between" ->
         <<Zero, IF n > 1 THEN Times(remaining, Rat(1, n - 1)) ELSE Zero>>
    [] justify = "space-around" ->
         <<Times(remaining, Rat(1, 2 * n)), Times(remaining, Rat(1, n))>>
    [] justify = "space-evenly" ->
         <<Times(remaining, Rat(1, n + 1)), Times(remaining, Rat(1, n + 1))>>

\* cross offset and cross size of a child, by alignItems (spec 4.2)
AlignTable(align, own, crossContent) ==
  CASE align = "flex-start" -> <<Zero, own>>
    [] align = "flex-end" -> <<Minus(crossContent, own), own>>
    [] align = "center" -> <<Times(Minus(crossContent, own), Rat(1, 2)), own>>
    [] align = "stretch" -> <<Zero, crossContent>>

\* the slot of the child at index i of FlexBox f resolved to bounds, in
\* closed form: content origin + start + sum over j < i of
\* (mainSize_j + gap + between) on the main axis
ExpectedSlot(f, i, bounds) ==
  LET a == attr[f]
      kids == children[f]
      n == Len(kids)
      row == a.direction = "row"
      cw == Minus(bounds.width, Plus(a.padding, a.padding))
      ch == Minus(bounds.height, Plus(a.padding, a.padding))
      w(j) == IF attr[kids[j]].measure = "proportional"
              THEN Times(attr[kids[j]].width, cw) ELSE attr[kids[j]].width
      h(j) == IF attr[kids[j]].measure = "proportional"
              THEN Times(attr[kids[j]].height, ch) ELSE attr[kids[j]].height
      main(j) == IF row THEN w(j) ELSE h(j)
      cross(j) == IF row THEN h(j) ELSE w(j)
      total[k \in 0..n] == IF k = 0 THEN Zero ELSE Plus(main(k), total[k - 1])
      remaining == Minus(IF row THEN cw ELSE ch,
                         Plus(total[n], Times(Int2Num(n - 1), a.gap)))
      jt == JustifyTable(a.justifyContent, n, remaining)
      at == AlignTable(a.alignItems, cross(i), IF row THEN ch ELSE cw)
      offset == Plus(Plus(jt[1], total[i - 1]),
                     Times(Int2Num(i - 1), Plus(a.gap, jt[2])))
      mainStart == Plus(Plus(IF row THEN bounds.x ELSE bounds.y, a.padding), offset)
      crossStart == Plus(Plus(IF row THEN bounds.y ELSE bounds.x, a.padding), at[1])
  IN IF row
     THEN [x |-> mainStart, y |-> crossStart, width |-> main(i), height |-> at[2]]
     ELSE [x |-> crossStart, y |-> mainStart, width |-> at[2], height |-> main(i)]

LastIndex(f, c) ==
  CHOOSE i \in 1..Len(children[f]) :
    /\ children[f][i] = c
    /\ \A j \in (i + 1)..Len(children[f]) : children[f][j] # c

\* C8: after every performLayout that returns, the cache holds an entry for
\* exactly the container's current children (none when it has no children),
\* each one the slot this call computes for the child; nothing of an earlier
\* pass remains.
C8_CacheRebuilt ==
  (call.op = "performLayout" /\ call.ok) =>
    /\ DOMAIN childLayouts[call.node] = ChildSet(call.node)
    /\ \A c \in ChildSet(call.node) :
         childLayouts[call.node][c] =
           ExpectedSlot(call.node, LastIndex(call.node, c), call.rect)

\* a second pass over a container with two children
C8_Witness ==
  /\ call.op = "performLayout"
  /\ call.ok
  /\ call.repeat
  /\ Cardinality(ChildSet(call.node)) = 2
  /\ Cardinality(DOMAIN childLayouts[call.node]) = 2

\* C9: a performLayout that directly follows a performLayout of the same
\* container, with the same resolved rectangle, leaves the cache as the
\* first call left it, child by child.
C9_Idempotent ==
  [][(/\ call'.op = "performLayout"
      /\ call'.repeat
      /\ call'.ok
      /\ call.ok
      /\ call'.rect = call.rect) =>
       /\ DOMAIN childLayouts'[call'.node] = DOMAIN childLayouts[call'.node]
       /\ \A c \in DOMAIN childLayouts[call'.node] :
            childLayouts'[call'.node][c] = childLayouts[call'.node][c]]_vars

\* performLayout ran twice in a row on a container with children
C9_Witness ==
  /\ call.op = "performLayout"
  /\ call.repeat
  /\ call.ok
  /\ DOMAIN childLayouts[call.node] # {}
  /\ Len(children[call.node]) >= 2

\* C10: for every justifyContent value and child count n >= 1 the start
\* offset and the space after each child are those of the table; a single
\* child under space-between gets offset 0 and no division by zero.
C10_JustifyTable ==
  LET jt == JustifyTable(calc.justifyContent, calc.childCount, calc.remainingSpace)
  IN /\ calc.pc \in {"start", "done"} => calc.start = jt[1]
     /\ calc.pc = "done" =>
          /\ calc.between = jt[2]
          /\ IsFinite(calc.between)
          /\ (calc.justifyContent = "space-between" /\ calc.childCount = 1) =>
               (calc.start = Zero /\ calc.between = Zero)

\* one child under space-between with space left over
C10_Witness ==
  /\ calc.pc = "done"
  /\ calc.justifyContent = "space-between"
  /\ calc.childCount = 1
  /\ calc.remainingSpace # Zero
  /\ calc.start = Zero
  /\ calc.between = Zero

(***************************************************************************)
(* Properties of the drawing pass.                                         *)
(***************************************************************************)
PassEvents == DOMAIN pass.events

EventsOf(op, n) ==
  {i \in PassEvents : pass.events[i].op = op /\ pass.events[i].node = n}

PaintOps == {"image", "text", "rect"}

\* the events that paint something of a node of the set nodes
PaintsOf(nodes) ==
  {i \in PassEvents : pass.events[i].op \in PaintOps /\ pass.events[i].node \in nodes}

Descendants(n) == UNION {Subtree(children[n][i], NumNodes) : i \in 1..Len(children[n])}

\* the nodes below root form a tree: root has no parent, every node is
\* attached once, under the node that lists it
IsTreeFrom(root) ==
  /\ parentBox[root] = NoNode
  /\ \A p \in Subtree(root, NumNodes) :
       \A i \in 1..Len(children[p]) :
         /\ parentBox[children[p][i]] = p
         /\ \A j \in 1..Len(children[p]) : children[p][i] = children[p][j] => i = j

\* a drawing pass ran from the root of a tree
PassOnTree == pass.root # NoNode /\ IsTreeFrom(pass.root)

PassNodes == Subtree(pass.root, NumNodes)

\* C14: in a drawing pass, for every node: its image content is painted
\* before everything of its descendants, the subtrees of its children are
\* painted in insertion order, its border after all of its descendants, and
\* its text after its own border and after all of its descendants.
C14_PaintOrder ==
  PassOnTree =>
    \A n \in PassNodes :
      /\ \A i \in EventsOf("image", n), j \in PaintsOf(Descendants(n)) : i < j
      /\ \A a \in 1..Len(children[n]), b \in 1..Len(children[n]) :
           a < b =>
             \A i \in PaintsOf(Subtree(children[n][a], NumNodes)),
                j \in PaintsOf(Subtree(children[n][b], NumNodes)) : i < j
      /\ \A i \in PaintsOf(Descendants(n)), j \in EventsOf("rect", n) : i < j
      /\ \A i \in PaintsOf(Descendants(n)), j \in EventsOf("text", n) : i < j
      /\ \A i \in EventsOf("rect", n), j \in EventsOf("text", n) : i < j

\* C15: in a drawing pass started at the root of a tree every FlexBox runs
\* performLayout exactly once, before any event of its children's subtrees
\* and, when its parent is a FlexBox, after the parent's performLayout; and
\* no call of the pass fails with the layout-not-computed error.
C15_LayoutBeforeChildren ==
  PassOnTree =>
    /\ \A f \in PassNodes :
         isFlexBox(attr[f]) =>
           /\ Cardinality(EventsOf("performLayout", f)) = 1
           /\ \A i \in EventsOf("performLayout", f) :
                /\ \A j \in PassEvents :
                     pass.events[j].node \in Descendants(f) => i < j
                /\ (parentBox[f] # NoNode /\ isFlexBox(attr[parentBox[f]])) =>
                     \E k \in EventsOf("performLayout", parentBox[f]) :
                       k < i /\ pass.events[k].ok
    /\ \A i \in PassEvents : pass.events[i].err # ErrNotComputed

\* C16: a drawing pass with a page from the root of a tree completes without
\* error and leaves the cache of every FlexBox of the tree holding exactly
\* its children.
C16_PassCompletes ==
  (PassOnTree /\ pass.page # NoPage) =>
    /\ pass.ok
    /\ \A f \in PassNodes :
         isFlexBox(attr[f]) => DOMAIN childLayouts[f] = ChildSet(f)

\* the rectangle the pass resolved for the node of event i: that of the last
\* getBounds of the node before i
ResolvedBefore(i) ==
  LET n == pass.events[i].node
      k == CHOOSE k \in EventsOf("getBounds", n) :
             /\ k < i
             /\ \A m \in EventsOf("getBounds", n) : m < i => m <= k
  IN pass.events[k].rect

\* the block height the document measured for the text drawn by event i
MeasuredBefore(i) ==
  LET n == pass.events[i].node
      k == CHOOSE k \in EventsOf("heightOfString", n) :
             /\ k < i
             /\ \A m \in EventsOf("heightOfString", n) : m < i => m <= k
  IN pass.events[k].rect

Half(v) == Times(v, Rat(1, 2))

C19_BorderOncePerNode ==
  PassOnTree =>
    /\ \A n \in Node \ PassNodes : \A i \in PassEvents : pass.events[i].node # n
    /\ \A n \in PassNodes :
         /\ Cardinality(EventsOf("getBounds", n)) = 1
         /\ Greater(attr[n].borderWidth, Zero) =>
              /\ Cardinality(EventsOf("rect", n)) = 1
              /\ \A i \in EventsOf("rect", n) :
                   /\ pass.events[i].rect = ResolvedBefore(i)
                   /\ Return(Rect(pass.events[i].rect.x, pass.events[i].rect.y,
                                  pass.events[i].rect.width,
                                  pass.events[i].rect.height,
                                  getBounds(n, pass.page).rect.padding))
                        = getBounds(n, pass.page)
         /\ ~Greater(attr[n].borderWidth, Zero) => EventsOf("rect", n) = {}

\* C17: after performLayout, getBounds of a child of the FlexBox that has
\* margin 0, Absolute or Proportional, is the slot the parent holds for it
\* (parent.computeChildLayout(child)); the child's own x and y are not used.
C17_ChildBoundsAreSlot ==
  (/\ IsGetBounds
   /\ CallParent # NoNode
   /\ isFlexBox(attr[CallParent])
   /\ call.node \in DOMAIN childLayouts[CallParent]
   /\ CallAttr.margin = Zero) =>
    /\ call.ok
    /\ Return(Geometry(call.rect)) =
         computeChildLayout(childLayouts, CallParent, call.node)

(***************************************************************************)
(* Properties of the distribution.                                         *)
(***************************************************************************)
\* a performLayout call returned
Distributed == call.op = "performLayout" /\ call.ok

IsRow(f) == attr[f].direction = "row"

\* the content width and height of container f resolved to rect
ContentOf(f, rect) ==
  [width |-> Minus(Minus(rect.width, attr[f].padding), attr[f].padding),
   height |-> Minus(Minus(rect.height, attr[f].padding), attr[f].padding)]

\* the content origin of container f resolved to rect
OriginOf(f, rect) ==
  [x |-> Plus(rect.x, attr[f].padding), y |-> Plus(rect.y, attr[f].padding)]

\* what child c asks for inside content: literal size if Absolute, fraction
\* of the content if Proportional
OwnSize(c, content) ==
  IF attr[c].measure = "absolute"
  THEN [width |-> attr[c].width, height |-> attr[c].height]
  ELSE [width |-> Times(attr[c].width, content.width),
        height |-> Times(attr[c].height, content.height)]

MainOf(f, r) == IF IsRow(f) THEN r.width ELSE r.height
CrossOf(f, r) == IF IsRow(f) THEN r.height ELSE r.width
MainPos(f, r) == IF IsRow(f) THEN r.x ELSE r.y
CrossPos(f, r) == IF IsRow(f) THEN r.y ELSE r.x

\* the sum of the main sizes of the first k children of f
MainSum(f, content, k) ==
  LET total[j \in 0..k] ==
        IF j = 0 THEN Zero
        ELSE Plus(total[j - 1], MainOf(f, OwnSize(children[f][j], content)))
  IN total[k]

\* remaining = mainContent - sum of main sizes - gap*(n-1)
RemainingOf(f, content) ==
  LET n == Len(children[f])
  IN Minus(Minus(MainOf(f, content), MainSum(f, content, n)),
           Times(attr[f].gap, Int2Num(n - 1)))

\* C11: the slot of every child of a FlexBox has the cross-axis offset and
\* cross size of the alignItems table: flex-start (0, own), flex-end
\* (crossContent - own, own), center ((crossContent - own)/2, own), stretch
\* (0, crossContent); under stretch the cross size is crossContent whatever
\* the child asked for.
C11_CrossAxis ==
  Distributed =>
    LET f == call.node
        content == ContentOf(f, call.rect)
        crossContent == CrossOf(f, content)
        crossOrigin == CrossPos(f, OriginOf(f, call.rect))
    IN \A c \in ChildSet(f) :
         LET slot == childLayouts[f][c]
             own == CrossOf(f, OwnSize(c, content))
             at == AlignTable(attr[f].alignItems, own, crossContent)
         IN /\ CrossPos(f, slot) = Plus(crossOrigin, at[1])
            /\ CrossOf(f, slot) = at[2]
            /\ attr[f].alignItems = "stretch" => CrossOf(f, slot) = crossContent

\* a stretch container whose child asked for more than the cross content
C11_Witness ==
  /\ Distributed
  /\ attr[call.node].alignItems = "stretch"
  /\ \E c \in ChildSet(call.node) :
       /\ Greater(CrossOf(call.node, OwnSize(c, ContentOf(call.node, call.rect))),
                  CrossOf(call.node, ContentOf(call.node, call.rect)))
       /\ CrossOf(call.node, childLayouts[call.node][c]) =
            CrossOf(call.node, ContentOf(call.node, call.rect))

\* the container of the scenario of C12: 400x100 Absolute at (0, 0), row,
\* flex-start, gap 20, padding 0, two Absolute children of width 100
IsGapScenario ==
  /\ attr[Container].x = Zero
  /\ attr[Container].y = Zero
  /\ attr[Container].width = Int2Num(400)
  /\ attr[Container].height = Int2Num(100)
  /\ attr[Container].margin = Zero
  /\ attr[Container].padding = Zero
  /\ attr[Container].gap = Int2Num(20)
  /\ attr[Container].direction = "row"
  /\ attr[Container].justifyContent = "flex-start"
  /\ children[Container] = <<2, 3>>
  /\ \A c \in {2, 3} : attr[c].measure = "absolute" /\ attr[c].width = Int2Num(100)

\* C12: performLayout places child i on the main axis at contentOrigin +
\* start + sum over j < i of (mainSize_j + gap + between), with main mapped
\* to x/width in a row and to y/height in a column; in the scenario of the
\* 400x100 row container with gap 20 the slots start at x = 0 and x = 120.
C12_MainAxis ==
  Distributed =>
    LET f == call.node
        content == ContentOf(f, call.rect)
        n == Len(children[f])
        jt == JustifyTable(attr[f].justifyContent, n, RemainingOf(f, content))
    IN /\ \A i \in 1..n :
            LET slot == childLayouts[f][children[f][i]]
            IN /\ MainPos(f, slot) =
                    Plus(Plus(Plus(MainPos(f, OriginOf(f, call.rect)), jt[1]),
                              MainSum(f, content, i - 1)),
                         Times(Int2Num(i - 1), Plus(attr[f].gap, jt[2])))
               /\ MainOf(f, slot) = MainOf(f, OwnSize(children[f][i], content))
               /\ IsRow(f) => slot.width = OwnSize(children[f][i], content).width
               /\ ~IsRow(f) => slot.height = OwnSize(children[f][i], content).height
       /\ (f = Container /\ IsGapScenario) =>
            /\ childLayouts[f][2].x = Zero
            /\ childLayouts[f][3].x = Int2Num(120)

\* the scenario of C12 was laid out
C12_Witness ==
  /\ Distributed
  /\ call.node = Container
  /\ IsGapScenario
  /\ childLayouts[Container][3].x = Int2Num(120)

\* C13: the measure phase takes as content rectangle the container's
\* resolved rectangle shrunk by 2*padding on each axis; an Absolute child
\* contributes its literal width and height, a Proportional child
\* contentWidth*width and contentHeight*height, whatever the child's x and
\* y; remaining = mainContent - sum of main sizes - gap*(n-1), negative when
\* the children overflow (a flex-end container then starts its first child
\* at contentOrigin + remaining).
C13_MeasurePhase ==
  Distributed =>
    LET f == call.node
        m == Measure(f, call.rect)
        content == ContentOf(f, call.rect)
        n == Len(children[f])
    IN /\ m.contentWidth = content.width
       /\ m.contentHeight = content.height
       /\ \A i \in 1..n :
            LET c == children[f][i]
                own == IF attr[c].measure = "absolute"
                       THEN [width |-> attr[c].width, height |-> attr[c].height]
                       ELSE [width |-> Times(content.width, attr[c].width),
                             height |-> Times(content.height, attr[c].height)]
            IN /\ m.sizes[i] = <<MainOf(f, own), CrossOf(f, own)>>
               /\ \A v \in {Zero, Int2Num(33), Rat(3, 4)} :
                    MeasureChild([attr[c] EXCEPT !.x = v, !.y = Neg(v)], IsRow(f),
                                 m.contentWidth, m.contentHeight) = m.sizes[i]
               /\ MainOf(f, childLayouts[f][c]) = MainOf(f, own)
       /\ m.remainingSpace = RemainingOf(f, content)
       /\ (n > 0 /\ attr[f].justifyContent = "flex-end") =>
            MainPos(f, childLayouts[f][children[f][1]]) =
              Plus(MainPos(f, OriginOf(f, call.rect)), RemainingOf(f, content))

\* a padded flex-end container whose Absolute and Proportional children
\* overflow it
C13_Witness ==
  /\ Distributed
  /\ attr[call.node].padding # Zero
  /\ attr[call.node].justifyContent = "flex-end"
  /\ Greater(Zero, RemainingOf(call.node, ContentOf(call.node, call.rect)))
  /\ \E c \in ChildSet(call.node) : attr[c].measure = "absolute"
  /\ \E c \in ChildSet(call.node) :
       /\ attr[c].measure = "proportional"
       /\ attr[c].x # Zero
  /\ Greater(MainPos(call.node, OriginOf(call.node, call.rect)),
             MainPos(call.node, childLayouts[call.node][children[call.node][1]]))

\* C20: performLayout on a FlexBox whose own rectangle resolves (the
\* resolution performLayout itself makes, without page) returns without
\* raising, whatever direction, justifyContent, alignItems, gap, padding and
\* child sizes, and leaves exactly one slot of four numbers per child.
C20_NeverRaises ==
  (call.op = "performLayout" /\ getBounds(call.node, NoPage).ok) =>
    /\ call.ok
    /\ DOMAIN childLayouts[call.node] = ChildSet(call.node)
    /\ Cardinality(DOMAIN childLayouts[call.node]) = Len(children[call.node])
    /\ \A c \in ChildSet(call.node) :
         LET slot == childLayouts[call.node][c]
         IN /\ IsFinite(slot.x)
            /\ IsFinite(slot.y)
            /\ IsFinite(slot.width)
            /\ IsFinite(slot.height)

\* a container whose padding exceeds its height laid out children that
\* overflow it: a slot of negative size and two slots that overlap
C20_Witness ==
  /\ Distributed
  /\ Greater(Zero, ContentOf(call.node, call.rect).height)
  /\ Greater(Zero, RemainingOf(call.node, ContentOf(call.node, call.rect)))
  /\ Len(children[call.node]) >= 2
  /\ \E c \in ChildSet(call.node) : Greater(Zero, childLayouts[call.node][c].height)
  /\ LET s1 == childLayouts[call.node][children[call.node][1]]
         s2 == childLayouts[call.node][children[call.node][2]]
     IN Greater(Plus(MainPos(call.node, s1), MainOf(call.node, s1)),
                MainPos(call.node, s2))

(***************************************************************************)
(* Construction.                                                           *)
(***************************************************************************)
\* a percentage string: a decimal number followed by the percent sign
IsPercentage(v) ==
  \/ "pct" \in DOMAIN v
  \/ /\ "str" \in DOMAIN v
     /\ Len(v.str) >= 2
     /\ v.str[Len(v.str)] = "%"
     /\ \A i \in 1..(Len(v.str) - 1) : v.str[i] \in {"0", "5", "."}
     /\ \E i \in 1..(Len(v.str) - 1) : v.str[i] \in {"0", "5"}
     /\ Cardinality({i \in 1..(Len(v.str) - 1) : v.str[i] = "."}) <= 1

RECURSIVE PlaceSum(_, _, _)
\* the sum over the digits s[1..k] of digit * 10^(dot - 1 - i) before the
\* point and digit / 10^(i - dot) after it
PlaceSum(s, k, dot) ==
  IF k = 0 THEN Zero
  ELSE Plus(PlaceSum(s, k - 1, dot),
            IF k < dot THEN Int2Num(DigitValue(s[k]) * Pow10(dot - 1 - k))
            ELSE IF k > dot THEN Rat(DigitValue(s[k]), Pow10(k - dot))
            ELSE Zero)

\* p / 100 for the percentage string p%
PercentFraction(v) ==
  IF "pct" \in DOMAIN v THEN Rat(v.pct, 100)
  ELSE LET k == Len(v.str) - 1
           dots == {i \in 1..k : v.str[i] = "."}
           dot == IF dots = {} THEN k + 1 ELSE CHOOSE i \in dots : TRUE
       IN Over(PlaceSum(v.str, k, dot), Int2Num(100))

SizeStored(v, stored) ==
  /\ IsNumberProp(v) => stored = v
  /\ IsPercentage(v) => stored = PercentFraction(v)

\* C21: a constructor call whose width or height is a string that is not a
\* percentage throws a configuration error and creates no node; a call that
\* returns has stored a number unchanged and a percentage p% as p/100; and
\* getBounds never throws a configuration error.
C21_ConstructorRejects ==
  /\ call.op = "new" =>
        /\ (\/ (IsStringProp(call.arg.props.width)
                   /\ ~IsPercentage(call.arg.props.width))
             \/ (IsStringProp(call.arg.props.height)
                   /\ ~IsPercentage(call.arg.props.height)))
             => /\ ~call.ok
                /\ call.err \in ConfigurationErrors
                /\ attr[call.node] = Unbuilt
        /\ call.ok =>
             /\ SizeStored(call.arg.props.width, attr[call.node].width)
             /\ SizeStored(call.arg.props.height, attr[call.node].height)
  /\ call.op = "getBounds" => call.err \notin ConfigurationErrors

(***************************************************************************)
(* Margin.                                                                 *)
(***************************************************************************)
\* n and m were constructed from the same properties except margin and
\* have the same parent
IsTwin(n, m) ==
  /\ n # m
  /\ parentBox[n] = parentBox[m]
  /\ WithMargin(attr[n], Zero) = WithMargin(attr[m], Zero)

\* the node resolves on the plain-proportional path
IsPlainPath(n) ==
  /\ attr[n].measure = "proportional"
  /\ parentBox[n] # NoNode => ~isFlexBox(attr[parentBox[n]])

\* r with m taken off on every side
Inset(r, m) ==
  [x |-> Plus(r.x, m), y |-> Plus(r.y, m),
   width |-> Minus(Minus(r.width, m), m),
   height |-> Minus(Minus(r.height, m), m)]

\* C22: a getBounds call that returns on the plain-proportional path returns
\* what the same call returns on every node that differs only in margin; on
\* the Absolute path it returns the node's own rectangle, and on the
\* flex-slot path the cached slot, with margin taken off on every side.
C22_MarginPaths ==
  (call.op = "getBounds" /\ call.ok) =>
     /\ IsPlainPath(call.node) =>
          \A m \in Node :
             IsTwin(call.node, m) =>
                /\ getBounds(m, call.arg).ok
                /\ getBounds(m, call.arg).rect = call.rect
     /\ attr[call.node].measure = "absolute" =>
          Geometry(call.rect) = Inset(attr[call.node], attr[call.node].margin)
     /\ (attr[call.node].measure = "proportional" /\ ~IsPlainPath(call.node)) =>
          Geometry(call.rect)
            = Inset(childLayouts[parentBox[call.node]][call.node],
                    attr[call.node].margin)

\* a node resolved on the plain-proportional path to a rectangle of finite
\* numbers, with a twin of another margin
C22_Witness ==
  /\ call.op = "getBounds"
  /\ call.ok
  /\ IsPlainPath(call.node)
  /\ IsFinite(call.rect.x)
  /\ IsFinite(call.rect.width)
  /\ \E m \in Node :
        /\ IsTwin(call.node, m)
        /\ attr[m].margin # attr[call.node].margin

(***************************************************************************)
(* A Proportional FlexBox below a plain Box.                               *)
(***************************************************************************)
\* the rectangle of fractions a inside the content rectangle of base, the
\* rectangle of a parent with padding P
InsideContent(a, base, P) ==
  [x |-> Plus(Plus(base.x, P), Times(base.width, a.x)),
   y |-> Plus(Plus(base.y, P), Times(base.height, a.y)),
   width |-> Minus(Minus(Times(base.width, a.width), P), P),
   height |-> Minus(Minus(Times(base.height, a.height), P), P)]

\* C23: a getBounds call that returns on a Proportional FlexBox whose parent
\* is a plain Box with padding P returns the rectangle of its fractions of
\* the parent's rectangle, offset by P and reduced by 2*P.
C23_FlexInsideContent ==
  (/\ call.op = "getBounds"
   /\ call.ok
   /\ isFlexBox(attr[call.node])
   /\ attr[call.node].measure = "proportional"
   /\ parentBox[call.node] # NoNode
   /\ ~isFlexBox(attr[parentBox[call.node]]))
  => Geometry(call.rect)
       = InsideContent(attr[call.node],
                       getBounds(parentBox[call.node], call.arg).rect,
                       attr[parentBox[call.node]].padding)

(***************************************************************************)
(* What a call changes.                                                    *)
(***************************************************************************)
\* C24: a getBounds or computeChildLayout call leaves every attribute,
\* every parent and children edge and every cache unchanged; a
\* performLayout call leaves the attributes, the edges and the cache of
\* every other FlexBox unchanged.
C24_Frame ==
  [][/\ call'.op \in {"getBounds", "computeChildLayout"} =>
          UNCHANGED <<attr, parentBox, children, childLayouts>>
     /\ call'.op = "performLayout" =>
          /\ UNCHANGED <<attr, parentBox, children>>
          /\ \A g \in Node \ {call'.node} : childLayouts'[g] = childLayouts[g]]_vars

\* performLayout has filled the cache of a FlexBox whose parent is a
\* FlexBox with a filled cache
C24_Witness ==
  /\ call.op = "performLayout"
  /\ call.ok
  /\ DOMAIN childLayouts[call.node] # {}
  /\ parentBox[call.node] # NoNode
  /\ isFlexBox(attr[parentBox[call.node]])
  /\ call.node \in DOMAIN childLayouts[parentBox[call.node]]

(***************************************************************************)
(* Parent and children edges.                                              *)
(***************************************************************************)
\* the positions (p, i) at which c stands in a children list
Places(c) ==
  {pl \in Node \X (1..MaxAdds) :
     pl[2] <= Len(children[pl[1]]) /\ children[pl[1]][pl[2]] = c}

\* C25: every node in the children list of p has p as its parentBox, and
\* every node stands in at most one children list, at most once.
C25_EdgesAgree ==
  \A c \in Node :
     /\ \A pl \in Places(c) : parentBox[c] = pl[1]
     /\ Cardinality(Places(c)) <= 1

(***************************************************************************)
(* The caches after a drawing pass.                                        *)
(***************************************************************************)
\* C26: after a drawing pass that returned on a tree, for every FlexBox of
\* the tree performLayout would return and leave the cache as it is, and
\* the cached slot of every child is the slot computed from the rectangle
\* the FlexBox resolves to after the pass.
C26_CachesConsistent ==
  (PassOnTree /\ pass.ok) =>
     \A f \in PassNodes :
        isFlexBox(attr[f]) =>
           /\ performLayout(childLayouts, f).ok
           /\ performLayout(childLayouts, f).layouts = childLayouts[f]
           /\ getBounds(f, pass.page).ok
           /\ DOMAIN childLayouts[f] = {children[f][i] : i \in 1..Len(children[f])}
           /\ \A i \in 1..Len(children[f]) :
                Geometry(childLayouts[f][children[f][i]])
                  = ExpectedSlot(f, i, Geometry(getBounds(f, pass.page).rect))

\* a pass returned on a tree in which a Proportional FlexBox with a child
\* stands in the slot of an outer FlexBox
C26_Witness ==
  /\ PassOnTree
  /\ pass.ok
  /\ \E f \in PassNodes :
        /\ isFlexBox(attr[f])
        /\ attr[f].measure = "proportional"
        /\ parentBox[f] # NoNode
        /\ isFlexBox(attr[parentBox[f]])
        /\ DOMAIN childLayouts[f] # {}

(***************************************************************************)
(* Order and symmetry of the slots along the main axis.                    *)
(***************************************************************************)
\* a >= b on finite numbers
AtLeast(a, b) == IsFinite(a) /\ IsFinite(b) /\ ~Greater(b, a)

\* the slot of the child at index i of f
SlotAt(f, i) == childLayouts[f][children[f][i]]

\* where the slot at index i ends on the main axis
MainEnd(f, i) == Plus(MainPos(f, SlotAt(f, i)), MainOf(f, SlotAt(f, i)))

\* gap >= 0, every measured main size >= 0 and remaining >= 0
HasRoom(f, content) ==
  /\ AtLeast(attr[f].gap, Zero)
  /\ \A i \in 1..Len(children[f]) :
        AtLeast(MainOf(f, OwnSize(children[f][i], content)), Zero)
  /\ AtLeast(RemainingOf(f, content), Zero)

\* C27: when gap >= 0, all measured main sizes >= 0 and remaining >= 0, each
\* slot starts at or after the end of the slot before it plus gap, the
\* first slot starts at or after the content origin and the last slot ends
\* at or before content origin + main content.
C27_NoOverlap ==
  Distributed =>
    LET f == call.node
        n == Len(children[f])
        content == ContentOf(f, call.rect)
        origin == MainPos(f, OriginOf(f, call.rect))
    IN (n >= 1 /\ HasRoom(f, content)) =>
         /\ \A i \in 1..(n - 1) :
              /\ MainOf(f, SlotAt(f, i)) = MainOf(f, OwnSize(children[f][i], content))
              /\ AtLeast(MainPos(f, SlotAt(f, i + 1)),
                         Plus(MainEnd(f, i), attr[f].gap))
         /\ AtLeast(MainPos(f, SlotAt(f, 1)), origin)
         /\ AtLeast(Plus(origin, MainOf(f, content)), MainEnd(f, n))

\* two or more children with a positive gap and room to spare
C27_Witness ==
  /\ Distributed
  /\ Len(children[call.node]) >= 2
  /\ HasRoom(call.node, ContentOf(call.node, call.rect))
  /\ Greater(attr[call.node].gap, Zero)
  /\ Greater(RemainingOf(call.node, ContentOf(call.node, call.rect)), Zero)
  /\ Greater(MainPos(call.node, SlotAt(call.node, 2)),
             Plus(MainEnd(call.node, 1), attr[call.node].gap))

\* the container of the scenario of C28: 400 wide, row, space-evenly, no
\* gap, no padding, two Absolute children of width 100
IsEvenlyScenario ==
  /\ attr[Container].width = Int2Num(400)
  /\ attr[Container].margin = Zero
  /\ attr[Container].padding = Zero
  /\ attr[Container].gap = Zero
  /\ attr[Container].direction = "row"
  /\ attr[Container].justifyContent = "space-evenly"
  /\ Len(children[Container]) = 2
  /\ \A i \in 1..2 :
        /\ attr[children[Container][i]].measure = "absolute"
        /\ attr[children[Container][i]].width = Int2Num(100)

\* C28: for one child or more, the space before the first slot equals the
\* space after the last slot under center, space-around and space-evenly;
\* the last slot ends at content origin + main content under flex-end and,
\* for two children or more, under space-between; the first slot starts at
\* the content origin under flex-start and space-between; whatever the sign
\* of remaining.  In the scenario the children stand at x = 200/3 and 700/3.
C28_Symmetric ==
  Distributed =>
    LET f == call.node
        n == Len(children[f])
        j == attr[f].justifyContent
        content == ContentOf(f, call.rect)
        origin == MainPos(f, OriginOf(f, call.rect))
        before == Minus(MainPos(f, SlotAt(f, 1)), origin)
        after == Minus(Plus(origin, MainOf(f, content)), MainEnd(f, n))
    IN n >= 1 =>
         /\ j \in {"center", "space-around", "space-evenly"} => before = after
         /\ (j = "flex-end" \/ (j = "space-between" /\ n >= 2)) => after = Zero
         /\ j \in {"flex-start", "space-between"} => before = Zero
         /\ (f = Container /\ IsEvenlyScenario) =>
              /\ SlotAt(f, 1).x = Rat(200, 3)
              /\ SlotAt(f, 2).x = Rat(700, 3)

\* space-around with negative remaining: the same overflow on both sides
C28_Witness ==
  /\ Distributed
  /\ Len(children[call.node]) >= 2
  /\ attr[call.node].justifyContent = "space-around"
  /\ Greater(Zero, RemainingOf(call.node, ContentOf(call.node, call.rect)))
  /\ Greater(MainPos(call.node, OriginOf(call.node, call.rect)),
             MainPos(call.node, SlotAt(call.node, 1)))
  /\ Minus(MainPos(call.node, SlotAt(call.node, 1)),
           MainPos(call.node, OriginOf(call.node, call.rect)))
       = Minus(Plus(MainPos(call.node, OriginOf(call.node, call.rect)),
                    MainOf(call.node, ContentOf(call.node, call.rect))),
               MainEnd(call.node, Len(children[call.node])))

(***************************************************************************)
(* Row and column.                                                         *)
(***************************************************************************)
TransposedRect(r) == [x |-> r.y, y |-> r.x, width |-> r.height, height |-> r.width]

\* performLayout has run on the container and on its transpose
BothDistributed ==
  /\ Distributed
  /\ DOMAIN childLayouts[Container] # {}
  /\ DOMAIN childLayouts[Mirror(Container)] # {}

\* C29: after performLayout on a container and on its transpose, the slot
\* of each child of the transpose is the slot of the same child of the
\* container with x and y swapped and width and height swapped.
C29_Transpose ==
  BothDistributed =>
    /\ attr[Mirror(Container)].direction # attr[Container].direction
    /\ Len(children[Mirror(Container)]) = Len(children[Container])
    /\ \A i \in 1..Len(children[Container]) :
          SlotAt(Mirror(Container), i) = TransposedRect(SlotAt(Container, i))

\* a row container with two children or more whose second slot is neither
\* square nor on the diagonal, and its transpose
C29_Witness ==
  /\ BothDistributed
  /\ attr[Container].direction = "row"
  /\ Len(children[Container]) >= 2
  /\ SlotAt(Container, 2).x # SlotAt(Container, 2).y
  /\ SlotAt(Container, 2).width # SlotAt(Container, 2).height
  /\ SlotAt(Mirror(Container), 2).y = SlotAt(Container, 2).x
  /\ SlotAt(Mirror(Container), 2).width = SlotAt(Container, 2).height

(***************************************************************************)
(* A performLayout call that fails.                                        *)
(***************************************************************************)
\* C30: a performLayout call that throws leaves the cache of its container
\* as it was before the call.
C30_FailureKeepsCache ==
  [][(call'.op = "performLayout" /\ ~call'.ok) =>
       /\ call'.err \in MissingAnchorErrors \cup {ErrNotComputed}
       /\ childLayouts'[call'.node] = childLayouts[call'.node]]_vars

\* performLayout has thrown on a FlexBox whose cache was filled before
C30_Witness ==
  /\ call.op = "performLayout"
  /\ ~call.ok
  /\ DOMAIN childLayouts[call.node] # {}

====
